---- MODULE Spec2Model ----
(***************************************************************************)
(* A model of the generalized content cache: the directive normalizers,    *)
(* the entry helpers and the classifier (utils/normalization.ts and        *)
(* utils/normalizedProducerResultResourceHelpers.ts), the Cache facade     *)
(* (Cache.ts), a backing store with the (id, vary) key of PostgresStore,   *)
(* and the single-producer wrapper (utils/wrapProducer.ts).                *)
(*                                                                         *)
(* Dates are integers in milliseconds, durations (ages, thresholds) are    *)
(* integers in seconds, as in the source.  An optional value is a set that *)
(* is empty (undefined) or holds the one value.                            *)
(***************************************************************************)
EXTENDS Integers, Sequences, FiniteSets, TLC

\* ------------------------------------------------------------------ bounds

\* Largest threshold (freshUntilAge, maxStale field, maxAge) a directive
\* carries, in seconds; raw thresholds range over -1..MaxSeconds, maxAge
\* over 0..MaxSeconds.
MaxSeconds == 2

\* ---------------------------------------------------------------- numbers

\* JavaScript's Infinity: larger than every number the model computes.
Infinity == 1000000

MsPerSecond == 1000

Max(a, b) == IF a >= b THEN a ELSE b

Min(a, b) == IF a <= b THEN a ELSE b

\* x ?? d for an optional x.
OrElse(x, d) == IF x = {} THEN d ELSE CHOOSE v \in x : TRUE

\* ---------------------------------------------------------- normalization

\* A variant that clamps every threshold at 0 and orders nothing.
normalizeProducerMaxStale_ClampOnly(maxStale) ==
    [withoutRevalidation |-> Max(0, maxStale.withoutRevalidation),
     whileRevalidate |-> Max(0, maxStale.whileRevalidate),
     ifError |-> Max(0, maxStale.ifError)]

normalizeProducerMaxStale(maxStale) ==
    LET withoutRevalidation == Max(0, maxStale.withoutRevalidation)
        whileRevalidate == Max(withoutRevalidation, maxStale.whileRevalidate)
        ifError == Max(whileRevalidate, maxStale.ifError)
    IN  [withoutRevalidation |-> withoutRevalidation,
         whileRevalidate |-> whileRevalidate,
         ifError |-> ifError]

\* A variant that takes ifError as counted from whileRevalidate.
normalizeConsumerMaxStale_Relative(maxStale) ==
    LET withoutRevalidation == Max(0, maxStale.withoutRevalidation)
        whileRevalidate == Max(withoutRevalidation, maxStale.whileRevalidate)
        ifError == whileRevalidate + Max(0, maxStale.ifError)
    IN  [freshUntilAge |-> {Max(0, f) : f \in maxStale.freshUntilAge},
         withoutRevalidation |-> withoutRevalidation,
         whileRevalidate |-> whileRevalidate,
         ifError |-> ifError]

normalizeConsumerMaxStale(maxStale) ==
    LET withoutRevalidation == Max(0, maxStale.withoutRevalidation)
        whileRevalidate == Max(withoutRevalidation, maxStale.whileRevalidate)
        ifError == Max(whileRevalidate, maxStale.ifError)
    IN  [freshUntilAge |-> {Max(0, f) : f \in maxStale.freshUntilAge},
         withoutRevalidation |-> withoutRevalidation,
         whileRevalidate |-> whileRevalidate,
         ifError |-> ifError]

normalizeProducerDirectives(directives) ==
    [freshUntilAge |-> Max(directives.freshUntilAge, 0),
     maxStale |-> {normalizeProducerMaxStale(m) : m \in directives.maxStale},
     storeFor |-> directives.storeFor]

\* ----------------------------------------------------------- entry helpers

birthDate(it) == it.date - it.initialAge * MsPerSecond

age(it, at) == (at - birthDate(it)) \div MsPerSecond

isValidatable(it) == it.validators # {}

isFresh(it, at) ==
    LET ageAt == age(it, at)
    IN  ageAt >= 0 /\ ageAt <= it.directives.freshUntilAge

\* A variant that counts on the entry only while it is fresh.
potentiallyUsefulFor_WhileFresh(it, at) ==
    IF it.directives.maxStale # {} /\ ~isValidatable(it)
    THEN it.directives.freshUntilAge - age(it, at)
    ELSE Infinity

potentiallyUsefulFor(it, at) ==
    IF it.directives.maxStale # {} /\ ~isValidatable(it)
    THEN it.directives.freshUntilAge
         + OrElse(it.directives.maxStale, [ifError |-> 0]).ifError - age(it, at)
    ELSE Infinity

\* -------------------------------------------------------------- classifier

Usable == "Usable"

UsableWhileRevalidate == "UsableWhileRevalidate"

UsableIfError == "UsableIfError"

Unusable == "Unusable"

EntryClassification == {Usable, UsableWhileRevalidate, UsableIfError, Unusable}

\* Mutant: the ceiling cuts off an entry whose age equals maxAge.
exceedsMaxAge_AtBoundary(ageAtDate, consumerDirs) ==
    \E maxAge \in consumerDirs.maxAge : ageAtDate >= maxAge

\* Mutant: the comparison with maxAge is inverted.
exceedsMaxAge_Inverted(ageAtDate, consumerDirs) ==
    \E maxAge \in consumerDirs.maxAge : ageAtDate < maxAge

\* consumerDirs.maxAge !== undefined && ageAtDate > consumerDirs.maxAge
exceedsMaxAge(ageAtDate, consumerDirs) ==
    \E maxAge \in consumerDirs.maxAge : ageAtDate > maxAge

\* consumerDirs.maxStale ? normalizeConsumerMaxStale(...) : undefined
givenConsumerMaxStaleNormalized(consumerDirs) ==
    {normalizeConsumerMaxStale(m) : m \in consumerDirs.maxStale}

\* Mutant: the consumer's freshUntilAge replaces the producer's.
effectiveFreshUntilAge_ConsumerOverrides(producerDirs, consumerDirs) ==
    LET given == givenConsumerMaxStaleNormalized(consumerDirs)
        consumerFreshUntilAge == UNION {m.freshUntilAge : m \in given}
    IN  OrElse(consumerFreshUntilAge, producerDirs.freshUntilAge)

effectiveFreshUntilAge(producerDirs, consumerDirs) ==
    LET given == givenConsumerMaxStaleNormalized(consumerDirs)
        consumerFreshUntilAge == UNION {m.freshUntilAge : m \in given}
    IN  Min(OrElse(consumerFreshUntilAge, Infinity), producerDirs.freshUntilAge)

\* Mutant: the producer's maxStale is not applied.
finalProducerMaxStale_Unbounded(producerDirs) ==
    [withoutRevalidation |-> Infinity,
     whileRevalidate |-> Infinity,
     ifError |-> Infinity]

finalProducerMaxStale(producerDirs) ==
    OrElse(producerDirs.maxStale,
           [withoutRevalidation |-> Infinity,
            whileRevalidate |-> Infinity,
            ifError |-> Infinity])

\* Mutant: a silent consumer inherits all of the producer's thresholds.
finalConsumerMaxStale_ProducerDefault(producerDirs, consumerDirs) ==
    LET given == givenConsumerMaxStaleNormalized(consumerDirs)
    IN  IF given # {}
        THEN CHOOSE m \in given : TRUE
        ELSE OrElse(producerDirs.maxStale,
                    [withoutRevalidation |-> 0, whileRevalidate |-> 0,
                     ifError |-> 0])

finalConsumerMaxStale(producerDirs, consumerDirs) ==
    LET given == givenConsumerMaxStaleNormalized(consumerDirs)
    IN  IF given # {}
        THEN CHOOSE m \in given : TRUE
        ELSE IF producerDirs.maxStale = {}
        THEN [withoutRevalidation |-> 0, whileRevalidate |-> 0, ifError |-> 0]
        ELSE LET p == CHOOSE m \in producerDirs.maxStale : TRUE
             IN  [withoutRevalidation |-> 0,
                  whileRevalidate |-> p.whileRevalidate,
                  ifError |-> p.ifError]

\* Mutant: the threshold comparisons are strict.
classifyStaleness_Strict(staleness, consumerMaxStale, producerMaxStale) ==
    IF staleness < Min(consumerMaxStale.withoutRevalidation,
                       producerMaxStale.withoutRevalidation)
    THEN Usable
    ELSE IF staleness < Min(consumerMaxStale.whileRevalidate,
                            producerMaxStale.whileRevalidate)
    THEN UsableWhileRevalidate
    ELSE IF staleness < Min(consumerMaxStale.ifError, producerMaxStale.ifError)
    THEN UsableIfError
    ELSE Unusable

\* The three threshold comparisons that close classify.
classifyStaleness(staleness, consumerMaxStale, producerMaxStale) ==
    IF staleness <= Min(consumerMaxStale.withoutRevalidation,
                        producerMaxStale.withoutRevalidation)
    THEN Usable
    ELSE IF staleness <= Min(consumerMaxStale.whileRevalidate,
                             producerMaxStale.whileRevalidate)
    THEN UsableWhileRevalidate
    ELSE IF staleness <= Min(consumerMaxStale.ifError, producerMaxStale.ifError)
    THEN UsableIfError
    ELSE Unusable

classify(entry, consumerDirs, at) ==
    LET producerDirs == entry.directives
        ageAtDate == age(entry, at)
        fresh == effectiveFreshUntilAge(producerDirs, consumerDirs)
    IN  IF exceedsMaxAge(ageAtDate, consumerDirs)
        THEN Unusable
        ELSE IF ageAtDate <= fresh
        THEN Usable
        ELSE IF producerDirs.maxStale = {}
                /\ givenConsumerMaxStaleNormalized(consumerDirs) = {}
        THEN Unusable
        ELSE classifyStaleness(ageAtDate - fresh,
                               finalConsumerMaxStale(producerDirs, consumerDirs),
                               finalProducerMaxStale(producerDirs))

\* ------------------------------------------------ params, vary, resources

\* A params or vary object is the set of its <<name, value>> pairs.  A
\* value is a string; this one stands for JavaScript's undefined.
UndefinedValue == "undefined"

\* Drops the pairs whose value is undefined.  The name and value
\* normalizers are the Cache's defaults, which return their argument.
normalizeParams(params) == {p \in params : p[2] # UndefinedValue}

\* As normalizeParams; a null value is kept and never value-normalized.
normalizeVary(vary) == {p \in vary : p[2] # UndefinedValue}

\* `current` is what `new Date()` gives when the function runs.
normalizeProducerResultResource(resourceResult, fallbackProducedAt, current) ==
    [id |-> resourceResult.id,
     content |-> resourceResult.content,
     initialAge |-> Max(OrElse(resourceResult.initialAge, 0), 0),
     vary |-> normalizeVary(OrElse(resourceResult.vary, {})),
     directives |-> normalizeProducerDirectives(resourceResult.directives),
     validators |-> OrElse(resourceResult.validators, {}),
     date |-> OrElse(resourceResult.date, OrElse(fallbackProducedAt, current))]

\* The directives object {}.
NoDirectives == [maxAge |-> {}, maxStale |-> {}]

completeRequest(req) ==
    [id |-> req.id,
     params |-> OrElse(req.params, {}),
     directives |-> OrElse(req.directives, NoDirectives)]

\* The object { id: reqId, ...rest }, rest being the producer's result
\* without supplementalResources: the spread comes after `id: reqId`, so
\* an id the result has itself replaces the id of the request.
primaryResource(result, reqId) ==
    [id |-> OrElse(result.id, reqId),
     content |-> result.content,
     initialAge |-> result.initialAge,
     vary |-> result.vary,
     directives |-> result.directives,
     validators |-> result.validators,
     date |-> result.date]

\* A variant that leaves the supplemental resources out.
requestPairedProducerResultToResources_PrimaryOnly(result, reqId) ==
    <<primaryResource(result, reqId)>>

requestPairedProducerResultToResources(result, reqId) ==
    <<primaryResource(result, reqId)>> \o result.supplementalResources

primaryNormalizedResultResourceFromRequestPairedProducerResult(result, reqId, current) ==
    normalizeProducerResultResource(primaryResource(result, reqId), {}, current)

isRequestingCacheBypass(dirs) == dirs.maxAge = {0}

\* ------------------------------------------------------------------ Cache

\* A variant that takes the entry born first.
bestEntry_Oldest(suitableEntries) ==
    CHOOSE it \in suitableEntries :
        \A other \in suitableEntries : birthDate(other) >= birthDate(it)

\* The entry born last.
bestEntry(suitableEntries) ==
    CHOOSE it \in suitableEntries :
        \A other \in suitableEntries : birthDate(other) <= birthDate(it)

\* The lookup result { validatable: [] }.
NoEntries ==
    [usable |-> {}, usableWhileRevalidate |-> {}, usableIfError |-> {},
     validatable |-> {}]

\* A variant that returns the best entry of every classification.
processCacheEntries_EveryBucket(entries, directives, at) ==
    LET best(c) ==
            LET bucket == {it \in entries : classify(it, directives, at) = c}
            IN  IF bucket = {} THEN {} ELSE {bestEntry(bucket)}
    IN  [usable |-> best(Usable),
         usableWhileRevalidate |-> best(UsableWhileRevalidate),
         usableIfError |-> best(UsableIfError),
         validatable |-> {it \in entries : isValidatable(it)}]

\* A variant that leaves the Unusable entries out of `validatable`.
processCacheEntries_UsefulValidatable(entries, directives, at) ==
    LET classifiedEntries(c) == {it \in entries : classify(it, directives, at) = c}
        usableEntries == classifiedEntries(Usable)
        validatableEntries ==
            {it \in entries :
                isValidatable(it) /\ classify(it, directives, at) # Unusable}
        usableWhileRevalidateEntries == classifiedEntries(UsableWhileRevalidate)
        usableIfErrorEntries == classifiedEntries(UsableIfError)
    IN  IF usableEntries # {}
        THEN [NoEntries EXCEPT !.usable = {bestEntry(usableEntries)}]
        ELSE IF usableWhileRevalidateEntries # {}
        THEN [NoEntries EXCEPT
                !.usableWhileRevalidate = {bestEntry(usableWhileRevalidateEntries)},
                !.validatable = validatableEntries]
        ELSE [NoEntries EXCEPT
                !.usableIfError = IF usableIfErrorEntries # {}
                                  THEN {bestEntry(usableIfErrorEntries)}
                                  ELSE {},
                !.validatable = validatableEntries]

processCacheEntries(entries, directives, at) ==
    LET classifiedEntries(c) == {it \in entries : classify(it, directives, at) = c}
        usableEntries == classifiedEntries(Usable)
        validatableEntries == {it \in entries : isValidatable(it)}
        usableWhileRevalidateEntries == classifiedEntries(UsableWhileRevalidate)
        usableIfErrorEntries == classifiedEntries(UsableIfError)
    IN  IF usableEntries # {}
        THEN [NoEntries EXCEPT !.usable = {bestEntry(usableEntries)}]
        ELSE IF usableWhileRevalidateEntries # {}
        THEN [NoEntries EXCEPT
                !.usableWhileRevalidate = {bestEntry(usableWhileRevalidateEntries)},
                !.validatable = validatableEntries]
        ELSE [NoEntries EXCEPT
                !.usableIfError = IF usableIfErrorEntries # {}
                                  THEN {bestEntry(usableIfErrorEntries)}
                                  ELSE {},
                !.validatable = validatableEntries]

\* A variant that stores an entry for as long as the producer asked.
calculateStoreFor_IgnoresUsefulness(entry, at) ==
    LET producerStoreFor == entry.directives.storeFor
    IN  IF producerStoreFor # {}
        THEN Max(0, OrElse(producerStoreFor, 0) - entry.initialAge)
        ELSE Infinity

calculateStoreFor(entry, at) ==
    LET producerStoreFor == entry.directives.storeFor
        requestedStoreFor ==
            IF producerStoreFor # {}
            THEN OrElse(producerStoreFor, 0) - entry.initialAge
            ELSE Infinity
    IN  Max(0, Min(requestedStoreFor, potentiallyUsefulFor(entry, at)))

\* What Cache.store hands to the backing store, and emits as "store"
\* events, for the resources `data` at the instant `at`.
entriesWithTimes(data, at) ==
    [i \in 1 .. Len(data) |->
        LET entry == normalizeProducerResultResource(data[i], {at}, at)
        IN  [entry |-> entry,
             maxStoreForSeconds |-> calculateStoreFor(entry, at)]]

\* ---------------------------------------------------------- backing store

\* The backing store holds a set of entries, at most one per (id, vary).
storeKey(it) == <<it.id, it.vary>>

\* The entries with this id whose vary pairs are all among the params.
storeGet(rows, id, params) ==
    {it \in rows : it.id = id /\ it.vary \subseteq params}

\* A variant that keeps the last item of each (id, vary).
keepMaxPerGroup_LastInput(items) ==
    {items[i].entry : i \in
        {i \in 1 .. Len(items) :
            \A j \in 1 .. Len(items) :
                storeKey(items[j].entry) = storeKey(items[i].entry) => j <= i}}

\* Of the items of one (id, vary), the first of those born last.
keepMaxPerGroup(items) ==
    {items[i].entry : i \in
        {i \in 1 .. Len(items) :
            \A j \in 1 .. Len(items) :
                storeKey(items[j].entry) = storeKey(items[i].entry)
                => \/ birthDate(items[j].entry) < birthDate(items[i].entry)
                   \/ /\ birthDate(items[j].entry) = birthDate(items[i].entry)
                      /\ i <= j}}

\* Insert, replacing the entry held under the same (id, vary).
storeUpsert(rows, items) ==
    LET kept == keepMaxPerGroup(items)
    IN  {it \in rows : \A k \in kept : storeKey(k) # storeKey(it)} \cup kept

\* ------------------------------------------- state of the wrapped producer

\* The one value of an optional that is known to hold one.
the(x) == CHOOSE v \in x : TRUE

\* Invocations of the wrapped producer in a run.
NumCalls == 2

\* The clock's last instant, in seconds.
MaxNow == 2

\* The option collapseOverlappingRequestsTime, in seconds.
collapseOverlappingRequestsTime == 1

\* The option isCacheable: every id but these is cacheable.
UncacheableIds == {"u"}

isCacheable(id, params) == id \notin UncacheableIds

BypassDirectives == [maxAge |-> {0}, maxStale |-> {}]

\* The requests a consumer makes; params and directives are optional.
PartialRequests ==
    {[id |-> "a", params |-> {}, directives |-> {}],
     [id |-> "a", params |-> {{}}, directives |-> {BypassDirectives}],
     [id |-> "u", params |-> {}, directives |-> {}]}

\* A resource the producer returns next to its primary result.
SupplementalResource(n) ==
    [id |-> "s",
     content |-> n,
     initialAge |-> {},
     vary |-> {{<<"dummy", "true">>}},
     directives |-> [freshUntilAge |-> 1, maxStale |-> {}, storeFor |-> {}],
     validators |-> {},
     date |-> {}]

\* What the n-th call of the producer can resolve with: fresh for the
\* second it is produced in, then usable while revalidating for a second,
\* then usable on error for a second.  The result has no
\* supplementalResources, or one, and leaves the optional id of a
\* request-paired result out.
ProducerResults(n) ==
    {[id |-> {},
      content |-> n,
      initialAge |-> {},
      vary |-> {},
      directives |->
          [freshUntilAge |-> 0,
           maxStale |-> {[withoutRevalidation |-> 0,
                          whileRevalidate |-> 1,
                          ifError |-> 2]},
           storeFor |-> {}],
      validators |-> {},
      date |-> {},
      supplementalResources |-> r] :
        r \in {<<>>, <<SupplementalResource(n)>>}}

ProducerError(n) == [error |-> "producer", call |-> n]

CacheReadError == [error |-> "cache", call |-> 0]

OnRequestAfterClose == {"throw", "return-nothing"}

Options ==
    [onCacheReadFailure : {"throw", "call-producer"},
     onGetAfterClose : OnRequestAfterClose,
     onStoreAfterClose : OnRequestAfterClose]

\* An invocation of the wrapped producer that has not been made yet.
IdleCall ==
    [pc |-> "idle",         \* "idle", "cache.get", "producer", "done"
     req |-> {},            \* the request it was called with
     get |-> "none",        \* what Cache.get did when it was called, and
                            \* "failed" once the backing store's read failed
     getNow |-> 0,          \* the `now` Cache.get took
     cacheRes |-> NoEntries,
     task |-> 0,            \* the producer call it attached itself to
     onError |-> "none",    \* what it does when that call rejects
     published |-> <<>>,    \* the <<outcome, cacheKey>> it published
     result |-> {}]         \* how the returned promise settled

resolved(value) == {[ok |-> TRUE, value |-> value]}

rejected(error) == {[ok |-> FALSE, value |-> error]}

\* ------------------------------------------------------------------ state

VARIABLES
    clsEntry,     \* the normalized entry handed to classify
    clsDirs,      \* the consumer directives handed to classify
    clsAt,        \* the instant handed to classify (ms)
    clsResult,    \* what classify returned for them
    now,          \* the clock (ms)
    closed,       \* Cache.#closed
    options,      \* the options of the Cache and of the wrapper
    rows,         \* the entries the backing store holds
    calls,        \* the invocations of the wrapped producer
    producerCalls,\* the calls made to the producer, in order
    pendingTasks, \* the collapser's pending tasks
    storeCalls,   \* the calls made to Cache.store, in order
    unhandled     \* invocations with a rejection nobody handles

clsVars == <<clsEntry, clsDirs, clsAt, clsResult>>

wrapVars ==
    <<now, closed, options, rows, calls, producerCalls, pendingTasks,
      storeCalls, unhandled>>

vars == <<clsVars, wrapVars>>

\* ------------------------------------------------ the wrapped producer

InitWrap ==
    /\ now = 0
    /\ closed = FALSE
    /\ rows = {}
    /\ calls = [i \in 1 .. NumCalls |-> IdleCall]
    /\ producerCalls = <<>>
    /\ pendingTasks = {}
    /\ storeCalls = <<>>
    /\ unhandled = {}

\* A variant in which every call goes through callProducerAndStore.
newProducerCall_AlwaysStores(req, by, stores) ==
    [req |-> req, by |-> by, at |-> now, stores |-> TRUE,
     state |-> "pending", result |-> {}]

\* A call of the producer with the request `req`, made by invocation
\* `by`; `stores` tells callProducerAndStore from callProducerAndLog.
newProducerCall(req, by, stores) ==
    [req |-> req, by |-> by, at |-> now, stores |-> stores,
     state |-> "pending", result |-> {}]

\* What Cache.get does before its first await.
cacheGetCalled ==
    IF closed
    THEN IF options.onGetAfterClose = "throw" THEN "rejected" ELSE "nothing"
    ELSE "reading"

\* What the promise of Cache.get resolves with; empty when it rejects.
cacheGetSettled(call, readFails) ==
    LET finalRequest == completeRequest(the(call.req))
    IN  IF call.get = "nothing"
        THEN {NoEntries}
        ELSE IF call.get = "rejected" \/ readFails
        THEN {}
        ELSE {processCacheEntries(
                 storeGet(rows, finalRequest.id,
                          normalizeParams(finalRequest.params)),
                 finalRequest.directives, call.getNow)}

\* A variant that rethrows whatever the option says.
onCacheReadFailure_Rethrows(got) == got

\* The handler of wrappedProducer on the promise of Cache.get.
onCacheReadFailure(got) ==
    IF got = {} /\ options.onCacheReadFailure = "call-producer"
    THEN {NoEntries}
    ELSE got

\* A variant that refreshes even what is usable.
returnsUsable_Never(cacheRes) == FALSE

\* The wrapped producer answers from the cache, with no refresh.
returnsUsable(cacheRes) == cacheRes.usable # {}

\* A variant without the fallback to the usableIfError entry.
rejectionHandler_NoFallback(cacheRes) ==
    IF cacheRes.usableWhileRevalidate # {} THEN "swallow" ELSE "propagate"

\* A variant that leaves the background rejection without a handler.
rejectionHandler_NoSwallow(cacheRes) ==
    IF cacheRes.usableWhileRevalidate # {}
    THEN "unhandled"
    ELSE IF cacheRes.usableIfError # {}
    THEN "fall-back"
    ELSE "propagate"

\* What the wrapped producer does with a rejection of newContentPromise.
rejectionHandler(cacheRes) ==
    IF cacheRes.usableWhileRevalidate # {}
    THEN "swallow"
    ELSE IF cacheRes.usableIfError # {}
    THEN "fall-back"
    ELSE "propagate"

\* A variant that gives every request the same key.
collapseKey_SameForAll(finalRequest) == "request"

\* The key under which the collapser holds a call: stableStringify of its
\* argument, the completed request.
collapseKey(finalRequest) == finalRequest

\* A variant that rejects with an error of its own.
rejectionResult_OwnError(call, t) ==
    IF call.onError = "fall-back"
    THEN resolved(the(call.cacheRes.usableIfError))
    ELSE rejected([error |-> "wrapper", call |-> t])

\* How the promise of an invocation awaiting producer call t settles when
\* that call rejects.
rejectionResult(call, t) ==
    IF call.onError = "fall-back"
    THEN resolved(the(call.cacheRes.usableIfError))
    ELSE rejected(ProducerError(t))

\* The collapser (collapsedTaskCreator) keeps, per key, the task it
\* started last, from its start until it settles.  A call is given the
\* pending task of its key if that task was started no more than
\* collapseOverlappingRequestsTime ago; otherwise it starts a task.
collapsedTask(key) ==
    {p.task : p \in
        {p \in pendingTasks :
            /\ p.key = key
            /\ now - p.time <= collapseOverlappingRequestsTime * MsPerSecond}}

\* The pending tasks once task `task` is started for `key`.
pendingTasksWith(key, task) ==
    {p \in pendingTasks : p.key # key}
    \cup {[key |-> key, task |-> task, time |-> now]}

\* The pending tasks once task `task` has settled.
pendingTasksWithout(task) == {p \in pendingTasks : p.task # task}

\* wrappedProducer is called with `req`: up to the await of the
\* producer (uncacheable) or of Cache.get.
WrappedProducerCalled(i, req) ==
    /\ calls[i].pc = "idle"
    /\ \A j \in 1 .. i - 1 : calls[j].pc # "idle"
    /\ LET finalRequest == completeRequest(req)
       IN  IF ~isCacheable(finalRequest.id, finalRequest.params)
           THEN /\ producerCalls' =
                       Append(producerCalls,
                              newProducerCall(finalRequest, i, FALSE))
                /\ calls' = [calls EXCEPT ![i] =
                       [@ EXCEPT !.pc = "producer",
                                 !.req = {req},
                                 !.published = <<<<"uncacheable", finalRequest.id>>>>,
                                 !.task = Len(producerCalls) + 1,
                                 !.onError = "propagate"]]
           ELSE /\ calls' = [calls EXCEPT ![i] =
                       [@ EXCEPT !.pc = "cache.get",
                                 !.req = {req},
                                 !.get = cacheGetCalled,
                                 !.getNow = now]]
                /\ UNCHANGED producerCalls
    /\ UNCHANGED <<now, closed, options, rows, pendingTasks, storeCalls,
                   unhandled, clsVars>>

\* The promise of Cache.get settles and wrappedProducer runs on, to its
\* return or to the await of the producer.
CacheGetSettles(i, readFails) ==
    /\ calls[i].pc = "cache.get"
    /\ readFails => calls[i].get = "reading"
    /\ LET call == calls[i]
           req == the(call.req)
           finalRequest == completeRequest(req)
           got == onCacheReadFailure(cacheGetSettled(call, readFails))
           cacheRes == OrElse(got, NoEntries)
           read == IF readFails THEN "failed" ELSE call.get
           shared == collapsedTask(collapseKey(finalRequest))
           task == IF shared # {} THEN the(shared) ELSE Len(producerCalls) + 1
       IN  IF got = {}
           THEN /\ calls' = [calls EXCEPT ![i] =
                       [@ EXCEPT !.pc = "done",
                                 !.get = read,
                                 !.result = rejected(CacheReadError)]]
                /\ UNCHANGED <<producerCalls, pendingTasks>>
           ELSE IF returnsUsable(cacheRes)
           THEN /\ calls' = [calls EXCEPT ![i] =
                       [@ EXCEPT !.pc = "done",
                                 !.get = read,
                                 !.cacheRes = cacheRes,
                                 !.published = <<<<"hit", finalRequest.id>>>>,
                                 !.result = resolved(the(cacheRes.usable))]]
                /\ UNCHANGED <<producerCalls, pendingTasks>>
           ELSE /\ IF shared # {}
                   THEN UNCHANGED <<producerCalls, pendingTasks>>
                   ELSE /\ producerCalls' =
                               Append(producerCalls,
                                      newProducerCall(finalRequest, i, TRUE))
                        /\ pendingTasks' = pendingTasksWith(collapseKey(finalRequest), task)
                /\ calls' = [calls EXCEPT ![i] =
                       IF cacheRes.usableWhileRevalidate # {}
                       THEN [@ EXCEPT
                               !.pc = "done",
                               !.get = read,
                               !.cacheRes = cacheRes,
                               !.task = task,
                               !.onError = rejectionHandler(cacheRes),
                               !.published =
                                   <<<<"stale_while_revalidate",
                                       finalRequest.id>>>>,
                               !.result =
                                   resolved(the(cacheRes.usableWhileRevalidate))]
                       ELSE [@ EXCEPT
                               !.pc = "producer",
                               !.get = read,
                               !.cacheRes = cacheRes,
                               !.task = task,
                               !.onError = rejectionHandler(cacheRes),
                               !.published =
                                   IF isRequestingCacheBypass(
                                          OrElse(req.directives, NoDirectives))
                                   THEN <<<<"bypass", finalRequest.id>>>>
                                   ELSE <<<<"miss", finalRequest.id>>>>]]
    /\ UNCHANGED <<now, closed, options, rows, storeCalls, unhandled, clsVars>>

\* What Cache.store does with a call: hand the entries to the backing
\* store, or, once closed, throw or do nothing.
cacheStoreCalled ==
    IF closed
    THEN IF options.onStoreAfterClose = "throw" THEN "rejected" ELSE "ignored"
    ELSE "writing"

CacheClosedError == [error |-> "closed", call |-> 0]

\* A variant that awaits Cache.store, so that its rejection of the call,
\* once the Cache is closed, becomes the rejection of the wrapper.
newContent_AwaitsStore(result, reqId, stored) ==
    IF stored = "rejected"
    THEN rejected(CacheClosedError)
    ELSE resolved(
             primaryNormalizedResultResourceFromRequestPairedProducerResult(
                 result, reqId, now))

\* What newContentPromise settles with when the producer has resolved
\* with `result`, whatever Cache.store did with the call (`stored`).
newContent(result, reqId, stored) ==
    resolved(
        primaryNormalizedResultResourceFromRequestPairedProducerResult(
            result, reqId, now))

\* The producer's promise of call t resolves with `result`:
\* callProducerAndStore hands the resources to Cache.store without
\* awaiting it, and every wrappedProducer awaiting the call returns.
ProducerResolves(t, result) ==
    /\ t \in 1 .. Len(producerCalls)
    /\ producerCalls[t].state = "pending"
    /\ producerCalls' = [producerCalls EXCEPT ![t] =
           [@ EXCEPT !.state = "resolved", !.result = {result}]]
    /\ pendingTasks' = pendingTasksWithout(t)
    /\ storeCalls' =
           IF producerCalls[t].stores
           THEN Append(storeCalls,
                       [by |-> t,
                        at |-> now,
                        data |-> requestPairedProducerResultToResources(
                                     result, producerCalls[t].req.id),
                        state |-> cacheStoreCalled])
           ELSE storeCalls
    /\ calls' = [i \in 1 .. NumCalls |->
           IF calls[i].task = t /\ calls[i].pc = "producer"
           THEN [calls[i] EXCEPT
                   !.pc = "done",
                   !.result = newContent(
                       result, completeRequest(the(calls[i].req)).id,
                       IF producerCalls[t].stores
                       THEN cacheStoreCalled
                       ELSE "none")]
           ELSE calls[i]]
    /\ UNCHANGED <<now, closed, options, rows, unhandled, clsVars>>

\* The producer's promise of call t rejects: every newContentPromise made
\* from it rejects, and each wrappedProducer does what its handler says.
ProducerRejects(t) ==
    /\ t \in 1 .. Len(producerCalls)
    /\ producerCalls[t].state = "pending"
    /\ producerCalls' = [producerCalls EXCEPT ![t] =
           [@ EXCEPT !.state = "rejected"]]
    /\ pendingTasks' = pendingTasksWithout(t)
    /\ calls' = [i \in 1 .. NumCalls |->
           IF calls[i].task = t /\ calls[i].pc = "producer"
           THEN [calls[i] EXCEPT
                   !.pc = "done",
                   !.result = rejectionResult(calls[i], t)]
           ELSE calls[i]]
    /\ unhandled' = unhandled \cup
           {i \in 1 .. NumCalls :
               calls[i].task = t /\ calls[i].onError = "unhandled"}
    /\ UNCHANGED <<now, closed, options, rows, storeCalls, clsVars>>

\* The backing store finishes the write of Cache.store call w: the entries
\* are upserted, or the write fails and the failure is logged.
DataStoreStoreSettles(w, writeFails) ==
    /\ w \in 1 .. Len(storeCalls)
    /\ storeCalls[w].state = "writing"
    /\ storeCalls' = [storeCalls EXCEPT ![w] =
           [@ EXCEPT !.state = IF writeFails THEN "failed" ELSE "stored"]]
    /\ rows' = IF writeFails
               THEN rows
               ELSE storeUpsert(rows,
                        entriesWithTimes(storeCalls[w].data, storeCalls[w].at))
    /\ UNCHANGED <<now, closed, options, calls, producerCalls, pendingTasks,
                   unhandled, clsVars>>

\* Cache.close.
Close ==
    /\ ~closed
    /\ closed' = TRUE
    /\ UNCHANGED <<now, options, rows, calls, producerCalls, pendingTasks,
                   storeCalls, unhandled, clsVars>>

\* A second passes.
Tick ==
    /\ now < MaxNow * MsPerSecond
    /\ now' = now + MsPerSecond
    /\ UNCHANGED <<closed, options, rows, calls, producerCalls, pendingTasks,
                   storeCalls, unhandled, clsVars>>

Init ==
    /\ InitWrap
    /\ options \in Options
    /\ clsEntry = {}
    /\ clsDirs = {}
    /\ clsAt = 0
    /\ clsResult = Unusable

Next ==
    \/ \E i \in 1 .. NumCalls, req \in PartialRequests :
           WrappedProducerCalled(i, req)
    \/ \E i \in 1 .. NumCalls, readFails \in BOOLEAN :
           CacheGetSettles(i, readFails)
    \/ \E t \in DOMAIN producerCalls :
           \E result \in ProducerResults(t) : ProducerResolves(t, result)
    \/ \E t \in 1 .. NumCalls : ProducerRejects(t)
    \/ \E w \in 1 .. NumCalls, writeFails \in BOOLEAN :
           DataStoreStoreSettles(w, writeFails)
    \/ Close
    \/ Tick

Spec == Init /\ [][Next]_vars

\* ------------------------------------------- the wrapped bulk producer

\* One of the results of a bulk producer is an Error.
isError(result) == "error" \in DOMAIN result

\* The request lists a consumer hands to the wrapped bulk producer.
RequestA == [id |-> "a", params |-> {}, directives |-> {}]

RequestU == [id |-> "u", params |-> {}, directives |-> {}]

RequestS ==
    [id |-> "s", params |-> {{<<"dummy", "true">>}}, directives |-> {}]

BulkRequests ==
    {<<>>, <<RequestA, RequestA>>, <<RequestU, RequestA>>,
     <<RequestA, RequestS>>}

\* What the bulk producer can return for the k-th request of its n-th
\* call: a result with a supplemental resource, or an Error.
BulkElementResults(n, k) ==
    {r \in ProducerResults(10 * n + k) : r.supplementalResources # <<>>}
    \cup {ProducerError(10 * n + k)}

\* What the n-th call of the bulk producer can resolve with, given `len`
\* requests: one result or Error per request, in the order of the requests.
BulkProducerResults(n, len) ==
    {results \in [1 .. len -> UNION {BulkElementResults(n, k) :
                                        k \in 1 .. len}] :
        \A k \in 1 .. len : results[k] \in BulkElementResults(n, k)}

\* An invocation of the wrapped bulk producer that has not been made yet.
BulkIdleCall ==
    [pc |-> "bulk.idle",    \* "bulk.idle", "cache.getMany", "bulk.producer",
                            \* "bulk.uncacheable", "done"
     reqs |-> <<>>,         \* the requests it was called with
     get |-> "none",        \* what Cache.getMany did when it was called,
                            \* and "failed" once the store's read failed
     getNow |-> 0,          \* the `now` Cache.getMany took
     cacheRes |-> <<>>,     \* cacheResults, one per cacheable request
     task |-> 0,            \* the producer call it awaits for its misses
     refreshTask |-> 0,     \* the background producer call
     uncacheableTask |-> 0, \* the producer call for uncacheable requests
     pairs |-> <<>>,        \* requestsWithResults, as far as built
     published |-> <<>>,    \* the <<outcome, cacheKey>> it published
     result |-> {}]         \* how the returned promise settled

\* The positions 1 .. Len(s), in order.
positions(s) == [k \in 1 .. Len(s) |-> k]

\* The elements of s at the positions ps, in the order of ps.
elementsAt(s, ps) == [k \in 1 .. Len(ps) |-> s[ps[k]]]

\* finalRequests: every request completed.
finalRequestsOf(reqs) == [k \in 1 .. Len(reqs) |-> completeRequest(reqs[k])]

\* partition(finalRequests, isCacheable), as positions in finalRequests (the
\* code keeps the request objects, which finalRequestsToOriginalIndices
\* maps back to their positions).
cacheableRequests(finalRequests) ==
    SelectSeq(positions(finalRequests),
              LAMBDA k : isCacheable(finalRequests[k].id,
                                     finalRequests[k].params))

nonCacheableRequests(finalRequests) ==
    SelectSeq(positions(finalRequests),
              LAMBDA k : ~isCacheable(finalRequests[k].id,
                                      finalRequests[k].params))

\* What the promise of Cache.getMany resolves with; empty when it rejects.
cacheGetManySettled(call, readFails) ==
    LET finalRequests == finalRequestsOf(call.reqs)
        cacheable == cacheableRequests(finalRequests)
    IN  IF call.get = "nothing"
        THEN {[k \in 1 .. Len(cacheable) |-> NoEntries]}
        ELSE IF call.get = "rejected" \/ readFails
        THEN {}
        ELSE {[k \in 1 .. Len(cacheable) |->
                 processCacheEntries(
                     storeGet(rows, finalRequests[cacheable[k]].id,
                              normalizeParams(
                                  finalRequests[cacheable[k]].params)),
                     finalRequests[cacheable[k]].directives, call.getNow)]}

\* The handler of wrappedBulkProducer on the promise of Cache.getMany.
onCacheManyReadFailure(got, cacheable) ==
    IF got = {} /\ options.onCacheReadFailure = "call-producer"
    THEN {[k \in 1 .. Len(cacheable) |-> NoEntries]}
    ELSE got

\* The indices into cacheableRequests of the requests with a usable
\* result, with a usableWhileRevalidate result, and with neither.
requestsWithUsableResults(cacheRes) ==
    SelectSeq(positions(cacheRes), LAMBDA k : cacheRes[k].usable # {})

requestsWithUsableWhileRevalidateResults(cacheRes) ==
    SelectSeq(positions(cacheRes),
              LAMBDA k : cacheRes[k].usableWhileRevalidate # {})

\* A variant that sends the stale-while-revalidate requests to the
\* producer at once as well.
requestsNeedingProducerNow_Stale(cacheRes) ==
    SelectSeq(positions(cacheRes), LAMBDA k : cacheRes[k].usable = {})

requestsNeedingProducerNow(cacheRes) ==
    SelectSeq(positions(cacheRes),
              LAMBDA k : cacheRes[k].usable = {}
                         /\ cacheRes[k].usableWhileRevalidate = {})

\* A variant that hands the results back in the order they were gathered.
placeResults_AsGathered(pairs, len) ==
    [k \in 1 .. Len(pairs) |-> {pairs[k][2]}]

\* results: each gathered result put at the position of its request; a
\* later pair for a position replaces an earlier one.
placeResults(pairs, len) ==
    [k \in 1 .. len |->
        LET at == {j \in 1 .. Len(pairs) : pairs[j][1] = k}
        IN  IF at = {}
            THEN {}
            ELSE {pairs[CHOOSE j \in at : \A other \in at : other <= j][2]}]

\* A variant that never falls back to the usableIfError entry.
producerResultFor_NoFallback(producerResult, cacheResult, reqId, current) ==
    IF isError(producerResult)
    THEN producerResult
    ELSE primaryNormalizedResultResourceFromRequestPairedProducerResult(
             producerResult, reqId, current)

\* What the output holds for a request that went to the producer.
producerResultFor(producerResult, cacheResult, reqId, current) ==
    IF isError(producerResult)
    THEN OrElse(cacheResult.usableIfError, producerResult)
    ELSE primaryNormalizedResultResourceFromRequestPairedProducerResult(
             producerResult, reqId, current)

RECURSIVE flatten(_)
\* The concatenation of the sequences in `seqs` (flatMap's flattening).
flatten(seqs) ==
    IF seqs = <<>> THEN <<>> ELSE Head(seqs) \o flatten(Tail(seqs))

\* A variant that leaves the supplemental resources out.
resourcesToStore_PrimariesOnly(results, reqs) ==
    flatten([k \in 1 .. Len(results) |->
                IF isError(results[k])
                THEN <<>>
                ELSE <<primaryResource(results[k], reqs[k].id)>>])

\* The resources of every result that is not an Error, in order.
resourcesToStore(results, reqs) ==
    flatten([k \in 1 .. Len(results) |->
                IF isError(results[k])
                THEN <<>>
                ELSE requestPairedProducerResultToResources(results[k],
                                                            reqs[k].id)])

\* The pending task the collapser holds for `key` among `pending`, if one
\* started no more than collapseOverlappingRequestsTime seconds ago.
collapsedTaskIn(pending, key) ==
    {p.task : p \in {p \in pending :
        /\ p.key = key
        /\ now - p.time <= collapseOverlappingRequestsTime * MsPerSecond}}

\* collapsedCallProducerAndStore(reqs), called by invocation i when the
\* producer calls and the pending tasks are those of `st`: the task
\* joined or started, and the producer calls and pending tasks after it.
collapsedCallProducerAndStore(st, reqs, i) ==
    LET shared == collapsedTaskIn(st.pendingTasks, collapseKey(reqs))
        task == IF shared # {} THEN the(shared)
                ELSE Len(st.producerCalls) + 1
    IN  IF shared # {}
        THEN [st EXCEPT !.task = task]
        ELSE [st EXCEPT
                !.task = task,
                !.producerCalls =
                    Append(st.producerCalls, newProducerCall(reqs, i, TRUE)),
                !.pendingTasks =
                    {p \in st.pendingTasks : p.key # collapseKey(reqs)}
                    \cup {[key |-> collapseKey(reqs), task |-> task,
                           time |-> now]}]

\* The pairs of a request (its position) and its result for the
\* uncacheable requests, given the results of their producer call.
uncacheablePairs(finalRequests, results) ==
    LET nonCacheable == nonCacheableRequests(finalRequests)
    IN  [k \in 1 .. Len(nonCacheable) |->
            <<nonCacheable[k],
              IF isError(results[k])
              THEN results[k]
              ELSE primaryNormalizedResultResourceFromRequestPairedProducerResult(
                       results[k], finalRequests[nonCacheable[k]].id, now)>>]

\* wrappedBulkProducer from the await of the uncacheable requests' results
\* to its return, for an invocation whose requestsWithResults so far are
\* `pairs`: it goes on waiting, rethrows, or returns the results in place.
awaitUncacheable(call, pairs, producerCallsNow) ==
    LET finalRequests == finalRequestsOf(call.reqs)
        t == call.uncacheableTask
        state == IF t = 0 THEN "resolved" ELSE producerCallsNow[t].state
        results == IF t = 0 THEN <<>> ELSE the(producerCallsNow[t].result)
    IN  IF state = "pending"
        THEN [call EXCEPT !.pc = "bulk.uncacheable", !.pairs = pairs]
        ELSE IF state = "rejected"
        THEN [call EXCEPT !.pc = "done", !.pairs = pairs,
                          !.result = rejected(ProducerError(t))]
        ELSE [call EXCEPT
                !.pc = "done",
                !.pairs = pairs \o uncacheablePairs(finalRequests, results),
                !.result = resolved(
                    placeResults(
                        pairs \o uncacheablePairs(finalRequests, results),
                        Len(finalRequests)))]

\* wrappedBulkProducer from the producer's results for the requests that
\* needed it to the await of the uncacheable requests' results: the
\* background refresh is started and requestsWithResults is built.
afterProducerResults(st, i, producerResults) ==
    LET call == st.calls[i]
        finalRequests == finalRequestsOf(call.reqs)
        cacheable == cacheableRequests(finalRequests)
        usable == requestsWithUsableResults(call.cacheRes)
        stale == requestsWithUsableWhileRevalidateResults(call.cacheRes)
        needing == requestsNeedingProducerNow(call.cacheRes)
        refreshed ==
            IF stale # <<>>
            THEN collapsedCallProducerAndStore(
                     st, elementsAt(finalRequests,
                                    elementsAt(cacheable, stale)), i)
            ELSE [st EXCEPT !.task = 0]
        pairs ==
            [k \in 1 .. Len(usable) |->
                <<cacheable[usable[k]], the(call.cacheRes[usable[k]].usable)>>]
            \o [k \in 1 .. Len(stale) |->
                <<cacheable[stale[k]],
                  the(call.cacheRes[stale[k]].usableWhileRevalidate)>>]
            \o [k \in 1 .. Len(producerResults) |->
                <<cacheable[needing[k]],
                  producerResultFor(producerResults[k],
                                    call.cacheRes[needing[k]],
                                    finalRequests[cacheable[needing[k]]].id,
                                    now)>>]
    IN  [refreshed EXCEPT
           !.calls = [st.calls EXCEPT ![i] =
               awaitUncacheable([call EXCEPT !.refreshTask = refreshed.task],
                                pairs, refreshed.producerCalls)]]

\* The outcomes wrappedBulkProducer publishes, in order.
publishedOutcomes(finalRequests, cacheRes) ==
    LET cacheable == cacheableRequests(finalRequests)
        nonCacheable == nonCacheableRequests(finalRequests)
        usable == requestsWithUsableResults(cacheRes)
        stale == requestsWithUsableWhileRevalidateResults(cacheRes)
        needing == requestsNeedingProducerNow(cacheRes)
    IN  [k \in 1 .. Len(usable) |->
            <<"hit", finalRequests[cacheable[usable[k]]].id>>]
        \o [k \in 1 .. Len(stale) |->
            <<"stale_while_revalidate", finalRequests[cacheable[stale[k]]].id>>]
        \o [k \in 1 .. Len(needing) |->
            <<IF isRequestingCacheBypass(
                     finalRequests[cacheable[needing[k]]].directives)
              THEN "bypass" ELSE "miss",
              finalRequests[cacheable[needing[k]]].id>>]
        \o [k \in 1 .. Len(nonCacheable) |->
            <<"uncacheable", finalRequests[nonCacheable[k]].id>>]

\* wrappedBulkProducer from the cache's results to the await of the
\* producer, or on to its return when no request needs the producer now.
afterCacheResults(st, i, cacheRes) ==
    LET finalRequests == finalRequestsOf(st.calls[i].reqs)
        cacheable == cacheableRequests(finalRequests)
        needing == requestsNeedingProducerNow(cacheRes)
        call == [st.calls[i] EXCEPT
                   !.cacheRes = cacheRes,
                   !.published = publishedOutcomes(finalRequests, cacheRes)]
        st1 == [st EXCEPT !.calls = [st.calls EXCEPT ![i] = call]]
        started == collapsedCallProducerAndStore(
                       st1, elementsAt(finalRequests,
                                       elementsAt(cacheable, needing)), i)
    IN  IF needing # <<>>
        THEN [started EXCEPT
                !.calls = [st1.calls EXCEPT ![i] =
                    [call EXCEPT !.pc = "bulk.producer",
                                 !.task = started.task]]]
        ELSE afterProducerResults(st1, i, <<>>)

\* The invocations, producer calls and pending tasks as one value.
wrapperState == [calls |-> calls, producerCalls |-> producerCalls,
                 pendingTasks |-> pendingTasks, task |-> 0]

\* wrappedBulkProducer is called with `reqs`: up to its return (no
\* requests), to the await of Cache.getMany, or, when no request is
\* cacheable, to the await of the producer's results.
WrappedBulkProducerCalled(i, reqs) ==
    /\ calls[i].pc = "bulk.idle"
    /\ \A j \in 1 .. i - 1 : calls[j].pc # "bulk.idle"
    /\ LET finalRequests == finalRequestsOf(reqs)
           cacheable == cacheableRequests(finalRequests)
           nonCacheable == nonCacheableRequests(finalRequests)
           started ==
               IF nonCacheable # <<>>
               THEN Append(producerCalls,
                           newProducerCall(
                               elementsAt(finalRequests, nonCacheable),
                               i, FALSE))
               ELSE producerCalls
           call == [calls[i] EXCEPT
                      !.reqs = reqs,
                      !.uncacheableTask =
                          IF nonCacheable # <<>> THEN Len(started) ELSE 0]
           st == afterCacheResults(
                     [wrapperState EXCEPT
                        !.calls = [calls EXCEPT ![i] = call],
                        !.producerCalls = started],
                     i, <<>>)
       IN  IF reqs = <<>>
           THEN /\ calls' = [calls EXCEPT ![i] =
                       [@ EXCEPT !.pc = "done", !.result = resolved(<<>>)]]
                /\ UNCHANGED <<producerCalls, pendingTasks>>
           ELSE IF cacheable # <<>>
           THEN /\ calls' = [calls EXCEPT ![i] =
                       [call EXCEPT !.pc = "cache.getMany",
                                    !.get = cacheGetCalled,
                                    !.getNow = now]]
                /\ producerCalls' = started
                /\ UNCHANGED pendingTasks
           ELSE /\ calls' = st.calls
                /\ producerCalls' = st.producerCalls
                /\ pendingTasks' = st.pendingTasks
    /\ UNCHANGED <<now, closed, options, rows, storeCalls, unhandled, clsVars>>

\* The promise of Cache.getMany settles and wrappedBulkProducer runs on,
\* to its return or to its next await.
CacheGetManySettles(i, readFails) ==
    /\ calls[i].pc = "cache.getMany"
    /\ readFails => calls[i].get = "reading"
    /\ LET finalRequests == finalRequestsOf(calls[i].reqs)
           got == onCacheManyReadFailure(
                      cacheGetManySettled(calls[i], readFails),
                      cacheableRequests(finalRequests))
           read == IF readFails THEN "failed" ELSE calls[i].get
           st == afterCacheResults(
                     [wrapperState EXCEPT !.calls[i].get = read],
                     i, the(got))
       IN  IF got = {}
           THEN /\ calls' = [calls EXCEPT ![i] =
                       [@ EXCEPT !.pc = "done",
                                 !.get = read,
                                 !.result = rejected(CacheReadError)]]
                /\ UNCHANGED <<producerCalls, pendingTasks>>
           ELSE /\ calls' = st.calls
                /\ producerCalls' = st.producerCalls
                /\ pendingTasks' = st.pendingTasks
    /\ UNCHANGED <<now, closed, options, rows, storeCalls, unhandled, clsVars>>

\* What invocation i does when producer call t resolves with `results`.
resumeOnResults(st, i, t, results) ==
    LET call == st.calls[i]
    IN  IF call.pc = "bulk.producer" /\ call.task = t
        THEN afterProducerResults(st, i, results)
        ELSE IF call.pc = "bulk.uncacheable" /\ call.uncacheableTask = t
        THEN [st EXCEPT !.calls = [st.calls EXCEPT ![i] =
                 awaitUncacheable(call, call.pairs, st.producerCalls)]]
        ELSE st

RECURSIVE resumeAllOnResults(_, _, _, _)
\* Every invocation from i on that awaits producer call t runs on.
resumeAllOnResults(st, i, t, results) ==
    IF i > NumCalls
    THEN st
    ELSE resumeAllOnResults(resumeOnResults(st, i, t, results),
                            i + 1, t, results)

\* The bulk producer's promise of call t resolves with `results`:
\* callProducerAndStore hands the resources of the results that are not
\* Errors to Cache.store without awaiting it, and every
\* wrappedBulkProducer awaiting the call runs on.
BulkProducerResolves(t, results) ==
    /\ t \in 1 .. Len(producerCalls)
    /\ producerCalls[t].state = "pending"
    /\ results \in BulkProducerResults(t, Len(producerCalls[t].req))
    /\ LET data == resourcesToStore(results, producerCalls[t].req)
           st == resumeAllOnResults(
                     [wrapperState EXCEPT
                        !.producerCalls = [producerCalls EXCEPT ![t] =
                            [@ EXCEPT !.state = "resolved",
                                      !.result = {results}]],
                        !.pendingTasks = pendingTasksWithout(t)],
                     1, t, results)
       IN  /\ storeCalls' =
                  IF producerCalls[t].stores /\ data # <<>>
                  THEN Append(storeCalls,
                              [by |-> t, at |-> now, data |-> data,
                               state |-> cacheStoreCalled])
                  ELSE storeCalls
           /\ calls' = st.calls
           /\ producerCalls' = st.producerCalls
           /\ pendingTasks' = st.pendingTasks
    /\ UNCHANGED <<now, closed, options, rows, unhandled, clsVars>>

\* The bulk producer's promise of call t rejects: every
\* wrappedBulkProducer awaiting it rethrows; a background refresh logs it;
\* the rejection of a call whose promise has no handler yet is unhandled.
BulkProducerRejects(t) ==
    /\ t \in 1 .. Len(producerCalls)
    /\ producerCalls[t].state = "pending"
    /\ producerCalls' = [producerCalls EXCEPT ![t] =
           [@ EXCEPT !.state = "rejected"]]
    /\ pendingTasks' = pendingTasksWithout(t)
    /\ calls' = [i \in 1 .. NumCalls |->
           IF \/ calls[i].pc = "bulk.producer" /\ calls[i].task = t
              \/ calls[i].pc = "bulk.uncacheable"
                     /\ calls[i].uncacheableTask = t
           THEN [calls[i] EXCEPT !.pc = "done",
                                 !.result = rejected(ProducerError(t))]
           ELSE calls[i]]
    /\ unhandled' = unhandled \cup
           {i \in 1 .. NumCalls :
               calls[i].uncacheableTask = t /\ calls[i].pc # "bulk.uncacheable"}
    /\ UNCHANGED <<now, closed, options, rows, storeCalls, clsVars>>

\* The Cache closes as its defaults say: get and store throw once closed.
DefaultCloseOptions ==
    {o \in Options :
        o.onGetAfterClose = "throw" /\ o.onStoreAfterClose = "throw"}

InitBulkWrap ==
    /\ now = 0
    /\ closed = FALSE
    /\ rows = {}
    /\ calls = [i \in 1 .. NumCalls |-> BulkIdleCall]
    /\ producerCalls = <<>>
    /\ pendingTasks = {}
    /\ storeCalls = <<>>
    /\ unhandled = {}
    /\ clsEntry = {}
    /\ clsDirs = {}
    /\ clsAt = 0
    /\ clsResult = Unusable

\* The options left at their defaults.
DefaultOptions ==
    [onCacheReadFailure |-> "call-producer",
     onGetAfterClose |-> "throw",
     onStoreAfterClose |-> "throw"]

InitBulk ==
    /\ InitBulkWrap
    /\ options = DefaultOptions

\* A bulk invocation makes at most three producer calls.  The Cache stays
\* open, and its reads and writes succeed.
NextBulk ==
    \/ \E i \in 1 .. NumCalls, reqs \in BulkRequests :
           WrappedBulkProducerCalled(i, reqs)
    \/ \E i \in 1 .. NumCalls : CacheGetManySettles(i, FALSE)
    \/ \E t \in 1 .. 3 * NumCalls :
           \E results \in BulkProducerResults(
                              t, IF t <= Len(producerCalls)
                                 THEN Len(producerCalls[t].req) ELSE 0) :
               BulkProducerResolves(t, results)
    \/ \E t \in 1 .. 3 * NumCalls : BulkProducerRejects(t)
    \/ \E w \in 1 .. 3 * NumCalls : DataStoreStoreSettles(w, FALSE)
    \/ Tick

SpecBulk == InitBulk /\ [][NextBulk]_vars

\* ------------------------------------------------------- either wrapper

\* The invocations are those of wrapProducer's function, or those of
\* wrapBulkProducer's.
singleWrapper == "req" \in DOMAIN calls[1]

bulkWrapper == "reqs" \in DOMAIN calls[1]

\* The requests made of the single wrapper, among them one for the id
\* and params of the producer's supplemental resource.
WrapperRequests == PartialRequests \cup {RequestS}

\* The request lists handed to the bulk wrapper.
WrapperBulkRequests ==
    {<<RequestU, RequestA>>, <<RequestA, RequestS>>}

\* The bulk producer returns a result for every request.
WrapperBulkResults(n, len) ==
    {results \in BulkProducerResults(n, len) :
        \A k \in 1 .. len : ~isError(results[k])}

InitWrappers ==
    /\ Init \/ InitBulkWrap
    /\ options \in DefaultCloseOptions

NextWrappers ==
    \/ \E i \in 1 .. NumCalls, req \in WrapperRequests :
           WrappedProducerCalled(i, req)
    \/ \E i \in 1 .. NumCalls, readFails \in BOOLEAN :
           CacheGetSettles(i, readFails)
    \/ \E t \in DOMAIN producerCalls :
           \E result \in ProducerResults(t) :
               singleWrapper /\ ProducerResolves(t, result)
    \/ \E t \in 1 .. NumCalls : singleWrapper /\ ProducerRejects(t)
    \/ \E i \in 1 .. NumCalls, reqs \in WrapperBulkRequests :
           WrappedBulkProducerCalled(i, reqs)
    \/ \E i \in 1 .. NumCalls, readFails \in BOOLEAN :
           CacheGetManySettles(i, readFails)
    \/ \E t \in 1 .. 3 * NumCalls :
           /\ bulkWrapper
           /\ \E results \in WrapperBulkResults(
                                 t, IF t <= Len(producerCalls)
                                    THEN Len(producerCalls[t].req) ELSE 0) :
                  BulkProducerResolves(t, results)
    \/ \E w \in 1 .. 3 * NumCalls, writeFails \in BOOLEAN :
           DataStoreStoreSettles(w, writeFails)
    \/ Close
    \/ Tick

SpecWrappers == InitWrappers /\ [][NextWrappers]_vars

\* ------------------------------------- results with an id of their own

\* The id a producer puts into its results.
ResultId == "x"

\* What the n-th call of the producer can resolve with when it may fill
\* in the optional id of a request-paired result.
ProducerResultsWithId(n) ==
    ProducerResults(n)
    \cup {[r EXCEPT !.id = {ResultId}] : r \in ProducerResults(n)}

InitWithId ==
    /\ InitWrap
    /\ options = DefaultOptions
    /\ clsEntry = {}
    /\ clsDirs = {}
    /\ clsAt = 0
    /\ clsResult = Unusable

NextWithId ==
    \/ \E i \in 1 .. NumCalls, req \in PartialRequests :
           WrappedProducerCalled(i, req)
    \/ \E i \in 1 .. NumCalls, readFails \in BOOLEAN :
           CacheGetSettles(i, readFails)
    \/ \E t \in DOMAIN producerCalls :
           \E result \in ProducerResultsWithId(t) :
               ProducerResolves(t, result)
    \/ \E t \in 1 .. NumCalls : ProducerRejects(t)
    \/ \E w \in 1 .. NumCalls, writeFails \in BOOLEAN :
           DataStoreStoreSettles(w, writeFails)
    \/ Close
    \/ Tick

SpecWithId == InitWithId /\ [][NextWithId]_vars

\* ------------------------------------- one request, either wrapper

\* The cacheable requests made of the single wrapper, with and without
\* the consumer directive maxAge 0.
OneRequests ==
    {RequestA, [id |-> "a", params |-> {}, directives |-> {BypassDirectives}]}

\* The same requests as one-element lists for the bulk wrapper.
OneBulkRequests == {<<req>> : req \in OneRequests}

\* What the backing store may hold when the wrappers are made: nothing,
\* or an entry for the id "a", with a validator, written at instant 0.
StoredBefore ==
    {{},
     {entriesWithTimes(
          <<[id |-> "a", content |-> 0, initialAge |-> {}, vary |-> {},
             directives |->
                 [freshUntilAge |-> 0,
                  maxStale |-> {[withoutRevalidation |-> 0,
                                 whileRevalidate |-> 1,
                                 ifError |-> 2]},
                  storeFor |-> {}],
             validators |-> {{<<"etag", "1">>}},
             date |-> {}]>>, 0)[1].entry}}

InitOne ==
    /\ now = 0
    /\ closed = FALSE
    /\ options = DefaultOptions
    /\ rows \in StoredBefore
    /\ calls \in {[i \in 1 .. NumCalls |-> IdleCall],
                  [i \in 1 .. NumCalls |-> BulkIdleCall]}
    /\ producerCalls = <<>>
    /\ pendingTasks = {}
    /\ storeCalls = <<>>
    /\ unhandled = {}
    /\ clsEntry = {}
    /\ clsDirs = {}
    /\ clsAt = 0
    /\ clsResult = Unusable

\* One cacheable request per invocation; the producer returns a result
\* or fails, the bulk producer by an Error for the request.  The Cache
\* stays open, and its reads and writes succeed.
NextOne ==
    \/ \E i \in 1 .. NumCalls, req \in OneRequests :
           WrappedProducerCalled(i, req)
    \/ \E i \in 1 .. NumCalls : CacheGetSettles(i, FALSE)
    \/ \E t \in DOMAIN producerCalls :
           \E result \in ProducerResults(t) :
               singleWrapper /\ ProducerResolves(t, result)
    \/ \E t \in 1 .. NumCalls : singleWrapper /\ ProducerRejects(t)
    \/ \E i \in 1 .. NumCalls, reqs \in OneBulkRequests :
           WrappedBulkProducerCalled(i, reqs)
    \/ \E i \in 1 .. NumCalls : CacheGetManySettles(i, FALSE)
    \/ \E t \in DOMAIN producerCalls :
           /\ bulkWrapper
           /\ \E results \in BulkProducerResults(t, Len(producerCalls[t].req)) :
                  BulkProducerResolves(t, results)
    \/ \E w \in 1 .. NumCalls : DataStoreStoreSettles(w, FALSE)
    \/ Tick

SpecOne == InitOne /\ [][NextOne]_vars

\* ------------------------------------------------ the Cache used directly

\* JSON's null as the value of a vary pair: the producer relied on the
\* param being missing.
NullValue == "null"

\* Operations a consumer runs on the Cache in a run.
NumOps == 2

\* Producer directives: fresh for the second of production, then usable
\* while revalidating for a second, then usable on error for a second.
ShortLived ==
    [freshUntilAge |-> 0,
     maxStale |-> {[withoutRevalidation |-> 0,
                    whileRevalidate |-> 1,
                    ifError |-> 2]},
     storeFor |-> {}]

\* Producer directives: fresh for two seconds, to be stored for two.
LongLived == [freshUntilAge |-> 2, maxStale |-> {}, storeFor |-> {2}]

\* A ProducerResultResource for the id "a"; validators and date are
\* optional.
CacheResource(vary, initialAge, validators, directives, date) ==
    [id |-> "a",
     content |-> 0,
     initialAge |-> {initialAge},
     vary |-> {vary},
     directives |-> directives,
     validators |-> validators,
     date |-> date]

\* The lists of resources handed to Cache.store: none; two short-lived
\* variants a second apart in age, the younger with an etag; two
\* long-lived variants, the younger with an etag; a variant for requests
\* without the param k; a resource received at instant 0; two
\* resources of one variant, a short-lived one received at instant 0 and
\* a long-lived one older than its storeFor.
StoreBatches ==
    {<<>>,
     <<CacheResource({}, 0, {{<<"etag", "1">>}}, ShortLived, {}),
       CacheResource({<<"k", "v">>}, 1, {}, ShortLived, {})>>,
     <<CacheResource({}, 1, {}, LongLived, {}),
       CacheResource({<<"k", "v">>}, 0, {{<<"etag", "1">>}}, LongLived, {})>>,
     <<CacheResource({<<"k", NullValue>>}, 0, {}, LongLived, {})>>,
     <<CacheResource({}, 0, {{<<"etag", "1">>}}, LongLived, {0})>>,
     <<CacheResource({}, 1, {}, ShortLived, {0}),
       CacheResource({}, 3, {}, LongLived, {})>>}

\* The requests handed to Cache.get: without params, with k = v, with
\* k = w, with k = v and maxAge 1, and for an id nothing is stored under.
GetRequests ==
    {[id |-> "a", params |-> {}, directives |-> NoDirectives],
     [id |-> "a", params |-> {<<"k", "v">>}, directives |-> NoDirectives],
     [id |-> "a", params |-> {<<"k", "w">>}, directives |-> NoDirectives],
     [id |-> "a", params |-> {<<"k", "v">>},
      directives |-> [maxAge |-> {1}, maxStale |-> {}]],
     [id |-> "b", params |-> {}, directives |-> NoDirectives]}

\* The lists of requests handed to Cache.getMany.
GetManyRequests ==
    {<<>>,
     <<[id |-> "a", params |-> {<<"k", "v">>}, directives |-> NoDirectives],
       [id |-> "a", params |-> {}, directives |-> NoDirectives]>>,
     <<[id |-> "a", params |-> {<<"k", "v">>},
        directives |-> [maxAge |-> {1}, maxStale |-> {}]],
       [id |-> "b", params |-> {}, directives |-> NoDirectives]>>}

\* An operation not yet started.  `arg` is its argument, `at` the `now`
\* it captured, `seen` what the backing store held when it answered each
\* read, `log` what the operation did to the emitter and to the backing
\* store, in order.
IdleOp ==
    [op |-> "idle", pc |-> "idle", arg |-> <<>>, at |-> 0, seen |-> <<>>,
     log |-> <<>>, result |-> {}]

cacheDirect == "op" \in DOMAIN calls[1]

\* Operations start in the order of their slots.
nextOp(i) ==
    /\ i \in 1 .. NumOps
    /\ calls[i].op = "idle"
    /\ \A j \in 1 .. i - 1 : calls[j].op # "idle"

\* Cache.get up to its await of the backing store's answer.
CacheGetCalled(i, req) ==
    /\ nextOp(i)
    /\ calls' = [calls EXCEPT ![i] =
           IF cacheGetCalled = "rejected"
           THEN [@ EXCEPT !.op = "get", !.arg = req, !.pc = "done",
                          !.result = rejected(CacheClosedError)]
           ELSE IF cacheGetCalled = "nothing"
           THEN [@ EXCEPT !.op = "get", !.arg = req, !.pc = "done",
                          !.result = resolved(NoEntries)]
           ELSE [@ EXCEPT !.op = "get", !.arg = req, !.pc = "reading",
                          !.at = now, !.seen = <<{}>>,
                          !.log = <<[did |-> "read", what |-> 1]>>]]
    /\ UNCHANGED <<now, closed, options, rows, producerCalls, pendingTasks,
                   storeCalls, unhandled, clsVars>>

\* Cache.getMany up to its await of the backing store's answer; the
\* list's emptiness is looked at before the closed flag.
CacheGetManyCalled(i, requests) ==
    /\ nextOp(i)
    /\ calls' = [calls EXCEPT ![i] =
           IF Len(requests) = 0
           THEN [@ EXCEPT !.op = "getMany", !.arg = requests, !.pc = "done",
                          !.result = resolved(<<>>)]
           ELSE IF cacheGetCalled = "rejected"
           THEN [@ EXCEPT !.op = "getMany", !.arg = requests, !.pc = "done",
                          !.result = rejected(CacheClosedError)]
           ELSE IF cacheGetCalled = "nothing"
           THEN [@ EXCEPT !.op = "getMany", !.arg = requests, !.pc = "done",
                          !.result =
                              resolved([k \in 1 .. Len(requests) |-> NoEntries])]
           ELSE [@ EXCEPT !.op = "getMany", !.arg = requests,
                          !.pc = "reading", !.at = now,
                          !.seen = [k \in 1 .. Len(requests) |-> {}],
                          !.log = [k \in 1 .. Len(requests) |->
                                      [did |-> "read", what |-> k]]]]
    /\ UNCHANGED <<now, closed, options, rows, producerCalls, pendingTasks,
                   storeCalls, unhandled, clsVars>>

\* What Cache.get returns once the backing store has answered against
\* the rows `seen`.
cacheGetResult(req, seen, at) ==
    processCacheEntries(storeGet(seen, req.id, normalizeParams(req.params)),
                        req.directives, at)

\* A variant that returns the results last request first.
cacheGetManyResult_Reversed(requests, seen, at) ==
    [k \in 1 .. Len(requests) |->
        processCacheEntries(
            storeGet(seen[Len(requests) + 1 - k],
                     requests[Len(requests) + 1 - k].id,
                     normalizeParams(requests[Len(requests) + 1 - k].params)),
            requests[Len(requests) + 1 - k].directives, at)]

\* What Cache.getMany returns once the backing store, which serves the
\* requests of a list by one get each (naiveGetMany), has answered the
\* k-th of them against the rows seen[k].
cacheGetManyResult(requests, seen, at) ==
    [k \in 1 .. Len(requests) |->
        processCacheEntries(
            storeGet(seen[k], requests[k].id,
                     normalizeParams(requests[k].params)),
            requests[k].directives, at)]

\* The backing store answers the k-th read of operation i; with the last
\* answer Cache.get or Cache.getMany classifies and returns.
DataStoreGetSettles(i, k) ==
    /\ cacheDirect
    /\ i \in 1 .. NumOps
    /\ calls[i].pc = "reading"
    /\ k \in 1 .. Len(calls[i].seen)
    /\ calls[i].seen[k] = {}
    /\ LET seen == [calls[i].seen EXCEPT ![k] = {rows}]
           answered == \A j \in 1 .. Len(seen) : seen[j] # {}
           all == [j \in 1 .. Len(seen) |-> the(seen[j])]
       IN  calls' = [calls EXCEPT ![i] =
               IF ~answered
               THEN [@ EXCEPT !.seen = seen]
               ELSE [@ EXCEPT
                       !.seen = seen,
                       !.pc = "done",
                       !.result =
                           IF calls[i].op = "get"
                           THEN resolved(cacheGetResult(
                                    calls[i].arg, all[1], calls[i].at))
                           ELSE resolved(cacheGetManyResult(
                                    calls[i].arg, all, calls[i].at))]]
    /\ UNCHANGED <<now, closed, options, rows, producerCalls, pendingTasks,
                   storeCalls, unhandled, clsVars>>

\* A variant that hands the entries to the backing store first.
storeLog_WriteFirst(items) ==
    <<[did |-> "write", what |-> items]>>
    \o [k \in 1 .. Len(items) |-> [did |-> "emit", what |-> items[k]]]

\* What Cache.store does with the entries and their times: it emits a
\* "store" event for each, then hands them all to the backing store.
storeLog(items) ==
    [k \in 1 .. Len(items) |-> [did |-> "emit", what |-> items[k]]]
    \o <<[did |-> "write", what |-> items]>>

\* Cache.store up to the promise of the backing store's write, which it
\* returns.
CacheStoreCalled(i, data) ==
    /\ nextOp(i)
    /\ calls' = [calls EXCEPT ![i] =
           IF cacheStoreCalled = "rejected"
           THEN [@ EXCEPT !.op = "store", !.arg = data, !.pc = "done",
                          !.result = rejected(CacheClosedError)]
           ELSE IF cacheStoreCalled = "ignored"
           THEN [@ EXCEPT !.op = "store", !.arg = data, !.pc = "done",
                          !.result = resolved(UndefinedValue)]
           ELSE [@ EXCEPT !.op = "store", !.arg = data, !.pc = "writing",
                          !.at = now,
                          !.log = storeLog(entriesWithTimes(data, now))]]
    /\ UNCHANGED <<now, closed, options, rows, producerCalls, pendingTasks,
                   storeCalls, unhandled, clsVars>>

\* The backing store finishes the write of operation i: the entries are
\* upserted, or the write fails and Cache.store rejects with its error.
DataStoreWriteSettles(i, writeFails) ==
    /\ cacheDirect
    /\ i \in 1 .. NumOps
    /\ calls[i].pc = "writing"
    /\ calls' = [calls EXCEPT ![i] =
           [@ EXCEPT !.pc = "done",
                     !.result =
                         IF writeFails
                         THEN rejected([error |-> "store", call |-> i])
                         ELSE resolved(UndefinedValue)]]
    /\ rows' = IF writeFails
               THEN rows
               ELSE storeUpsert(rows,
                        entriesWithTimes(calls[i].arg, calls[i].at))
    /\ UNCHANGED <<now, closed, options, producerCalls, pendingTasks,
                   storeCalls, unhandled, clsVars>>

\* A variant in which closing a closed Cache opens it again.
CacheCloseCalled_Toggles(i, timeout) ==
    /\ nextOp(i)
    /\ closed' = ~closed
    /\ calls' = [calls EXCEPT ![i] =
           [@ EXCEPT !.op = "close", !.arg = timeout, !.pc = "done",
                     !.at = now,
                     !.log = <<[did |-> "close", what |-> timeout]>>,
                     !.result = resolved(UndefinedValue)]]
    /\ UNCHANGED <<now, options, rows, producerCalls, pendingTasks,
                   storeCalls, unhandled, clsVars>>

\* Cache.close: the flag is set and the timeout goes to the backing
\* store, whose close does nothing (PostgresStore).
CacheCloseCalled(i, timeout) ==
    /\ nextOp(i)
    /\ closed' = TRUE
    /\ calls' = [calls EXCEPT ![i] =
           [@ EXCEPT !.op = "close", !.arg = timeout, !.pc = "done",
                     !.at = now,
                     !.log = <<[did |-> "close", what |-> timeout]>>,
                     !.result = resolved(UndefinedValue)]]
    /\ UNCHANGED <<now, options, rows, producerCalls, pendingTasks,
                   storeCalls, unhandled, clsVars>>

InitCache ==
    /\ now = 0
    /\ closed = FALSE
    /\ options \in {o \in Options : o.onCacheReadFailure = "throw"}
    /\ rows = {}
    /\ calls = [i \in 1 .. NumOps |-> IdleOp]
    /\ producerCalls = <<>>
    /\ pendingTasks = {}
    /\ storeCalls = <<>>
    /\ unhandled = {}
    /\ clsEntry = {}
    /\ clsDirs = {}
    /\ clsAt = 0
    /\ clsResult = Unusable

NextCache ==
    \/ \E i \in 1 .. NumOps, req \in GetRequests : CacheGetCalled(i, req)
    \/ \E i \in 1 .. NumOps, requests \in GetManyRequests :
           CacheGetManyCalled(i, requests)
    \/ \E i \in 1 .. NumOps, k \in 1 .. 2 : DataStoreGetSettles(i, k)
    \/ \E i \in 1 .. NumOps, data \in StoreBatches : CacheStoreCalled(i, data)
    \/ \E i \in 1 .. NumOps, writeFails \in BOOLEAN :
           DataStoreWriteSettles(i, writeFails)
    \/ \E i \in 1 .. NumOps, timeout \in {{}, {5}} :
           CacheCloseCalled(i, timeout)
    \/ Tick

SpecCache == InitCache /\ [][NextCache]_vars

\* --------------------------------------------- inputs of the classifier

RawSeconds == -1 .. MaxSeconds

RawMaxStales ==
    [withoutRevalidation : RawSeconds, whileRevalidate : RawSeconds,
     ifError : RawSeconds]

\* Entries hold normalized producer directives (Cache.store normalizes).
RawProducerDirectives ==
    [freshUntilAge : RawSeconds,
     maxStale : {{}} \cup {{m} : m \in RawMaxStales},
     storeFor : {{}}]

NormalizedProducerDirectives ==
    {normalizeProducerDirectives(d) : d \in RawProducerDirectives}

\* Consumer directives reach classify as the caller wrote them.
ConsumerMaxStales ==
    [freshUntilAge : {{}} \cup {{f} : f \in RawSeconds},
     withoutRevalidation : RawSeconds, whileRevalidate : RawSeconds,
     ifError : RawSeconds]

ConsumerDirectives ==
    [maxAge : {{}} \cup {{a} : a \in 0 .. MaxSeconds},
     maxStale : {{}} \cup {{m} : m \in ConsumerMaxStales}]

\* The entry is born one second after instant 0 (received then with
\* initialAge 0, or a second later with initialAge 1), so its age runs from
\* -1 upwards as the instant advances.
ClassifiedBirthDate == 1 * MsPerSecond

ClassifiedEntries ==
    {[id |-> "a", vary |-> {}, content |-> 0, initialAge |-> a,
      date |-> ClassifiedBirthDate + a * MsPerSecond, directives |-> d,
      validators |-> {}] :
        a \in 0 .. 1, d \in NormalizedProducerDirectives}

\* The last instant classified: the entry is then older than the longest
\* freshness lifetime plus the longest staleness threshold.
LastClassifiedAt == ClassifiedBirthDate + (2 * MaxSeconds + 1) * MsPerSecond

InitClassify ==
    /\ clsEntry \in ClassifiedEntries
    /\ clsDirs \in ConsumerDirectives
    /\ clsAt = 0
    /\ clsResult = classify(clsEntry, clsDirs, clsAt)
    /\ InitWrap
    /\ options = [onCacheReadFailure |-> "call-producer",
                  onGetAfterClose |-> "throw",
                  onStoreAfterClose |-> "throw"]

\* classify is applied again, one second later, to the same entry and
\* directives.
ClassifyLater ==
    /\ clsAt < LastClassifiedAt
    /\ clsAt' = clsAt + MsPerSecond
    /\ clsResult' = classify(clsEntry, clsDirs, clsAt')
    /\ UNCHANGED <<clsEntry, clsDirs, wrapVars>>

NextClassify == ClassifyLater

SpecClassify == InitClassify /\ [][NextClassify]_vars

TypeOKClassify == clsResult \in EntryClassification

\* ------------------------------------------------------ the normalizers

\* A normalizer is applied to directives as the producer or the consumer
\* wrote them, and then to what it returned.  clsDirs holds the raw
\* directives and clsResult what the applications returned, in order.
MaxApplications == 2

InitNormalize ==
    /\ clsDirs \in RawProducerDirectives \cup RawMaxStales \cup ConsumerMaxStales
    /\ clsResult = <<>>
    /\ clsEntry = {}
    /\ clsAt = 0
    /\ InitWrap
    /\ options = DefaultOptions

\* normalizeProducerDirectives for producer directives,
\* normalizeConsumerMaxStale for a consumer's maxStale, and
\* normalizeProducerMaxStale for a producer's.
Normalize ==
    /\ Len(clsResult) < MaxApplications
    /\ LET given == IF clsResult = <<>>
                    THEN clsDirs
                    ELSE clsResult[Len(clsResult)]
       IN  clsResult' = Append(clsResult,
               IF "storeFor" \in DOMAIN given
               THEN normalizeProducerDirectives(given)
               ELSE IF "freshUntilAge" \in DOMAIN given
               THEN normalizeConsumerMaxStale(given)
               ELSE normalizeProducerMaxStale(given))
    /\ UNCHANGED <<clsEntry, clsDirs, clsAt, wrapVars>>

NextNormalize == Normalize

SpecNormalize == InitNormalize /\ [][NextNormalize]_vars

\* ------------------------------------------- properties of the classifier

clsAge == age(clsEntry, clsAt)

clsProducerDirs == clsEntry.directives

\* The consumer's maxAge, if any, is not exceeded.
clsWithinMaxAge == \A M \in clsDirs.maxAge : clsAge <= M

clsWithoutMaxAge == [clsDirs EXCEPT !.maxAge = {}]

\* The consumer's thresholds after normalization, when it supplied maxStale.
clsConsumerMaxStale == {normalizeConsumerMaxStale(m) : m \in clsDirs.maxStale}

\* F: the minimum of the consumer's (normalized) freshUntilAge, if given,
\* and the producer's freshUntilAge.
clsF ==
    LET given == UNION {m.freshUntilAge : m \in clsConsumerMaxStale}
    IN  IF given = {}
        THEN clsProducerDirs.freshUntilAge
        ELSE Min(CHOOSE f \in given : TRUE, clsProducerDirs.freshUntilAge)

\* s: the staleness of the entry.
clsS == clsAge - clsF

\* The bucket of staleness s under the thresholds t.
BucketOf(s, t) ==
    CASE s <= t.withoutRevalidation -> Usable
      [] s > t.withoutRevalidation /\ s <= t.whileRevalidate -> UsableWhileRevalidate
      [] s > t.whileRevalidate /\ s <= t.ifError -> UsableIfError
      [] OTHER -> Unusable

\* Per-field minimum of two threshold records.
MinThresholds(c, p) ==
    [withoutRevalidation |-> Min(c.withoutRevalidation, p.withoutRevalidation),
     whileRevalidate |-> Min(c.whileRevalidate, p.whileRevalidate),
     ifError |-> Min(c.ifError, p.ifError)]

ClassIndex(c) ==
    CASE c = Usable -> 0
      [] c = UsableWhileRevalidate -> 1
      [] c = UsableIfError -> 2
      [] c = Unusable -> 3

\* C5: the consumer's maxAge is a hard ceiling: with maxAge = M, an entry
\* older than M is Unusable whatever the other directives say, and an entry
\* of age <= M is classified as it is with maxAge omitted.
Thm_C5_MaxAgeCeiling ==
    \A M \in clsDirs.maxAge :
        /\ clsAge > M => clsResult = Unusable
        /\ clsAge <= M => clsResult = classify(clsEntry, clsWithoutMaxAge, clsAt)

\* An entry that would be Usable without maxAge is cut off by it.
Wit_C5_MaxAgeCeiling ==
    /\ \E M \in clsDirs.maxAge : clsAge > M
    /\ classify(clsEntry, clsWithoutMaxAge, clsAt) = Usable
    /\ clsResult = Unusable

Orig_C7_ConsumerMaxStale ==
    \A c \in clsConsumerMaxStale :
        clsAge > clsF
          => clsResult =
               BucketOf(clsS, MinThresholds(c, finalProducerMaxStale(clsProducerDirs)))

\* C7 (amended): when the consumer supplies maxStale and its maxAge, if any,
\* is not exceeded, a stale entry (age > F) of staleness s = age - F is
\* classified by the per-field minimums of the consumer's normalized
\* thresholds and the producer's (+infinity when the producer gave none);
\* equality with a threshold falls inside its bucket.
Thm_C7_ConsumerMaxStale ==
    \A c \in clsConsumerMaxStale :
        (clsAge > clsF /\ clsWithinMaxAge)
          => LET p == IF clsProducerDirs.maxStale = {}
                      THEN [withoutRevalidation |-> Infinity,
                            whileRevalidate |-> Infinity, ifError |-> Infinity]
                      ELSE CHOOSE m \in clsProducerDirs.maxStale : TRUE
             IN  clsResult = BucketOf(clsS, MinThresholds(c, p))

\* A staleness exactly on the consumer's whileRevalidate threshold, which
\* is the tighter one, above both withoutRevalidation thresholds.
Wit_C7_ConsumerMaxStale ==
    /\ \E c \in clsConsumerMaxStale : \E p \in clsProducerDirs.maxStale :
         /\ clsS = c.whileRevalidate
         /\ c.whileRevalidate < p.whileRevalidate
         /\ clsS > c.withoutRevalidation
    /\ clsAge > clsF
    /\ clsWithinMaxAge
    /\ clsResult = UsableWhileRevalidate

\* C8 as stated: whenever the consumer supplies no maxStale, a stale entry
\* is classified by the producer's whileRevalidate and ifError alone.
Orig_C8_NoConsumerMaxStale ==
    (clsDirs.maxStale = {} /\ clsAge > clsF)
      => /\ clsResult # Usable
         /\ \A p \in clsProducerDirs.maxStale :
              clsResult = IF clsS <= p.whileRevalidate THEN UsableWhileRevalidate
                          ELSE IF clsS <= p.ifError THEN UsableIfError
                          ELSE Unusable
         /\ clsProducerDirs.maxStale = {} => clsResult = Unusable

\* C8 (amended): when the consumer supplies no maxStale, a stale entry is
\* never Usable; if its maxAge, if any, is not exceeded and the producer
\* supplied maxStale, it is UsableWhileRevalidate when s <= whileRevalidate,
\* else UsableIfError when s <= ifError, else Unusable; with no maxStale on
\* either side it is Unusable.
Thm_C8_NoConsumerMaxStale ==
    (clsDirs.maxStale = {} /\ clsAge > clsF)
      => /\ clsResult # Usable
         /\ clsWithinMaxAge
              => \A p \in clsProducerDirs.maxStale :
                   clsResult = IF clsS <= p.whileRevalidate
                               THEN UsableWhileRevalidate
                               ELSE IF clsS <= p.ifError THEN UsableIfError
                               ELSE Unusable
         /\ clsProducerDirs.maxStale = {} => clsResult = Unusable

\* A staleness the producer would allow without revalidation is served
\* only while revalidating when the consumer is silent.
Wit_C8_NoConsumerMaxStale ==
    /\ clsDirs.maxStale = {}
    /\ clsAge > clsF
    /\ clsWithinMaxAge
    /\ \E p \in clsProducerDirs.maxStale : clsS <= p.withoutRevalidation
    /\ clsResult = UsableWhileRevalidate

\* Staleness s respects the thresholds t: beyond a threshold the entry is
\* not in that threshold's bucket or a more usable one.
RespectsThresholds(s, t, c) ==
    /\ s > t.withoutRevalidation => c # Usable
    /\ s > t.whileRevalidate => c \notin {Usable, UsableWhileRevalidate}
    /\ s > t.ifError => c = Unusable

\* C9: no directive loosens another: the classification never exceeds what
\* the producer's maxStale permits, nor what the consumer's normalized
\* maxStale permits, whenever that party supplied one.
Thm_C9_NoLoosening ==
    /\ \A p \in clsProducerDirs.maxStale : RespectsThresholds(clsS, p, clsResult)
    /\ \A c \in clsConsumerMaxStale : RespectsThresholds(clsS, c, clsResult)

\* The consumer tolerates the staleness without revalidation, the producer
\* only while revalidating: the producer's limit is kept.
Wit_C9_NoLoosening ==
    /\ \E p \in clsProducerDirs.maxStale : \E c \in clsConsumerMaxStale :
         /\ clsS > p.withoutRevalidation
         /\ clsS <= c.withoutRevalidation
         /\ clsS <= p.whileRevalidate
    /\ clsWithinMaxAge
    /\ clsResult = UsableWhileRevalidate

\* C10: classification is monotone in time: for a fixed entry and fixed
\* consumer directives the category index never decreases as the instant
\* advances.
Thm_C10_MonotoneInTime ==
    [][ClassIndex(clsResult') >= ClassIndex(clsResult)]_vars

\* The entry has passed through the buckets in order: a second ago it was
\* UsableWhileRevalidate, now it is UsableIfError.
Wit_C10_MonotoneInTime ==
    /\ clsAt > 0
    /\ classify(clsEntry, clsDirs, clsAt - MsPerSecond) = UsableWhileRevalidate
    /\ clsResult = UsableIfError

\* ------------------------------------- properties of the wrapped producer

Invocations == 1 .. NumCalls

\* The request of invocation i, completed by hand: its id, its params or
\* {}, its directives or {}.
completedRequestOf(i) ==
    LET req == the(calls[i].req)
    IN  [id |-> req.id,
         params |-> IF req.params = {} THEN {} ELSE the(req.params),
         directives |-> IF req.directives = {}
                        THEN NoDirectives
                        ELSE the(req.directives)]

\* Invocation i has the lookup result of Cache.get (or the empty result
\* that stands in for a failed read) and has acted on it.
lookedUp(i) ==
    /\ calls[i].get # "none"
    /\ calls[i].pc \in {"producer", "done"}
    /\ calls[i].result # rejected(CacheReadError)

hit(i) == lookedUp(i) /\ calls[i].cacheRes.usable # {}

staleWhileRevalidate(i) ==
    /\ lookedUp(i)
    /\ calls[i].cacheRes.usable = {}
    /\ calls[i].cacheRes.usableWhileRevalidate # {}

miss(i) ==
    /\ lookedUp(i)
    /\ calls[i].cacheRes.usable = {}
    /\ calls[i].cacheRes.usableWhileRevalidate = {}

\* The producer calls invocation i made itself.
producerCallsBy(i) ==
    {t \in 1 .. Len(producerCalls) : producerCalls[t].by = i}

\* The Cache.store calls made with the result of producer call t.
storeCallsOf(t) == {w \in 1 .. Len(storeCalls) : storeCalls[w].by = t}

\* Exactly one producer call serves invocation i, and its argument is the
\* completed request: the call i made, or the pending call of another,
\* identical request that i was collapsed into, and then i made none.
servedByOneProducerCall(i) ==
    LET t == calls[i].task
    IN  /\ t \in 1 .. Len(producerCalls)
        /\ producerCalls[t].req = completedRequestOf(i)
        /\ producerCallsBy(i) \subseteq {t}
        /\ producerCalls[t].by # i =>
               /\ producerCallsBy(i) = {}
               /\ completedRequestOf(producerCalls[t].by) = completedRequestOf(i)

\* A resource without its id.
exceptId(resource) == [f \in DOMAIN resource \ {"id"} |-> resource[f]]

\* The resources of the result of producer call t: the primary one, under
\* the id of the request, then every supplemental one.
resourcesOf(t) ==
    LET result == the(producerCalls[t].result)
    IN  <<[id |-> producerCalls[t].req.id,
           content |-> result.content,
           initialAge |-> result.initialAge,
           vary |-> result.vary,
           directives |-> result.directives,
           validators |-> result.validators,
           date |-> result.date]>>
        \o result.supplementalResources

\* The result of producer call t went to Cache.store in one call, whole:
\* the primary resource (whatever id it is given), then every
\* supplemental one.
offeredToCacheStore(t) ==
    /\ Cardinality(storeCallsOf(t)) = 1
    /\ LET data == storeCalls[the(storeCallsOf(t))].data
       IN  /\ Len(data) = Len(resourcesOf(t))
           /\ exceptId(data[1]) = exceptId(resourcesOf(t)[1])
           /\ \A k \in 2 .. Len(data) : data[k] = resourcesOf(t)[k]

\* The normalized primary resource of the result of producer call t.
freshResultOf(t) ==
    normalizeProducerResultResource(
        resourcesOf(t)[1], {}, storeCalls[the(storeCallsOf(t))].at)

\* The promise `result` resolved with the normalized primary resource of
\* the result of producer call t (whatever id it is given).
resolvedFresh(result, t) ==
    /\ result # {}
    /\ the(result).ok
    /\ exceptId(the(result).value) = exceptId(freshResultOf(t))

\* C1: when Cache.get yields a usable entry for a cacheable request, the
\* wrapper returns exactly that entry, calls the producer for it neither
\* directly nor through a collapsed task, and makes no Cache.store call;
\* the entry is one a Cache.store call wrote, Usable for the request at the
\* lookup, so the producer has been called at most once per invocation
\* that found no usable entry.
Thm_C1_UsableHit ==
    /\ \A i \in Invocations :
           hit(i) =>
               /\ isCacheable(completedRequestOf(i).id,
                              completedRequestOf(i).params)
               /\ calls[i].pc = "done"
               /\ calls[i].result = resolved(the(calls[i].cacheRes.usable))
               /\ calls[i].task = 0
               /\ producerCallsBy(i) = {}
               /\ \A w \in 1 .. Len(storeCalls) :
                      producerCalls[storeCalls[w].by].by # i
               /\ classify(the(calls[i].cacheRes.usable),
                           completedRequestOf(i).directives,
                           calls[i].getNow) = Usable
               /\ \E w \in 1 .. Len(storeCalls) :
                      /\ storeCalls[w].state = "stored"
                      /\ \E k \in 1 .. Len(storeCalls[w].data) :
                             entriesWithTimes(storeCalls[w].data,
                                              storeCalls[w].at)[k].entry
                             = the(calls[i].cacheRes.usable)
    /\ Len(producerCalls) <=
           Cardinality({i \in Invocations :
                           calls[i].pc # "idle" /\ ~hit(i)})

\* A second, identical request is answered with the entry the first one's
\* producer call stored, and the producer has been called once.
Wit_C1_UsableHit ==
    /\ miss(1)
    /\ hit(2)
    /\ completedRequestOf(2) = completedRequestOf(1)
    /\ calls[2].result = calls[1].result
    /\ Len(producerCalls) = 1
    /\ producerCalls[1].state = "resolved"

\* C2: on a cache miss (the lookup yields no usable and no
\* usableWhileRevalidate entry) exactly one producer call serves the
\* invocation, made with the completed request; once that call resolves,
\* its primary result and all its supplemental resources have gone to
\* Cache.store in one call, and the invocation has resolved with the
\* normalized primary result.
Thm_C2_Miss ==
    \A i \in Invocations :
        miss(i) =>
            /\ servedByOneProducerCall(i)
            /\ producerCalls[calls[i].task].state = "resolved" =>
                   /\ offeredToCacheStore(calls[i].task)
                   /\ calls[i].pc = "done"
                   /\ resolvedFresh(calls[i].result, calls[i].task)

\* A miss made the producer call itself and resolved with its result,
\* whose supplemental resource went to Cache.store with the primary one.
Wit_C2_Miss ==
    \E i \in Invocations :
        /\ miss(i)
        /\ producerCallsBy(i) = {calls[i].task}
        /\ producerCalls[calls[i].task].state = "resolved"
        /\ Len(storeCalls[the(storeCallsOf(calls[i].task))].data) = 2
        /\ resolvedFresh(calls[i].result, calls[i].task)

\* C3: on a miss the wrapper awaits the producer; if the producer
\* succeeds it returns the fresh result, whether or not the lookup yielded
\* a usableIfError entry; if the producer fails it returns the
\* usableIfError entry when there is one, and rejects with the producer's
\* error when there is none.
Thm_C3_StaleIfError ==
    \A i \in Invocations :
        miss(i) =>
            LET t == calls[i].task
            IN  /\ t \in 1 .. Len(producerCalls)
                /\ producerCalls[t].state = "pending" =>
                       calls[i].pc = "producer" /\ calls[i].result = {}
                /\ producerCalls[t].state = "resolved" =>
                       resolvedFresh(calls[i].result, t)
                /\ producerCalls[t].state = "rejected" =>
                       /\ calls[i].pc = "done"
                       /\ calls[i].result =
                              IF calls[i].cacheRes.usableIfError # {}
                              THEN resolved(the(calls[i].cacheRes.usableIfError))
                              ELSE rejected(ProducerError(t))

\* The producer failed for a miss that had a usableIfError entry, and the
\* invocation resolved with that entry.
Wit_C3_StaleIfError ==
    \E i \in Invocations :
        /\ miss(i)
        /\ calls[i].cacheRes.usableIfError # {}
        /\ producerCalls[calls[i].task].state = "rejected"
        /\ calls[i].result = resolved(the(calls[i].cacheRes.usableIfError))

\* C4: when the lookup yields a usableWhileRevalidate entry (and no usable
\* one) the wrapper has resolved with that entry whatever the state of the
\* producer call, pending, resolved or rejected; exactly one producer call
\* serves the invocation in the background; the result of that call, once
\* it resolves, has gone to Cache.store; and its rejection is handled.
Thm_C4_StaleWhileRevalidate ==
    \A i \in Invocations :
        staleWhileRevalidate(i) =>
            /\ calls[i].pc = "done"
            /\ calls[i].result =
                   resolved(the(calls[i].cacheRes.usableWhileRevalidate))
            /\ servedByOneProducerCall(i)
            /\ producerCalls[calls[i].task].state = "resolved" =>
                   offeredToCacheStore(calls[i].task)
            /\ i \notin unhandled

\* The background call of a stale-while-revalidate answer failed; the
\* invocation had resolved with the stale entry all the same.
Wit_C4_StaleWhileRevalidate ==
    \E i \in Invocations :
        /\ staleWhileRevalidate(i)
        /\ producerCallsBy(i) = {calls[i].task}
        /\ producerCalls[calls[i].task].state = "rejected"
        /\ calls[i].result =
               resolved(the(calls[i].cacheRes.usableWhileRevalidate))

\* ------------------------------------------------ request collapsing

\* The producer calls whose result goes to the cache.
storingCalls == {t \in 1 .. Len(producerCalls) : producerCalls[t].stores}

\* The invocations that producer call t serves.
groupOf(t) == {i \in Invocations : calls[i].task = t}

\* The pending producer calls made for the request `req` that started no
\* more than collapseOverlappingRequestsTime seconds ago.
overlappingCalls(req) ==
    {t \in storingCalls :
        /\ producerCalls[t].state = "pending"
        /\ producerCalls[t].req = req
        /\ now - producerCalls[t].at
               <= collapseOverlappingRequestsTime * MsPerSecond}

\* In this step invocation i, back from its lookup, turns to the producer.
turnsToProducer(i) ==
    /\ calls[i].pc \in {"cache.get", "cache.getMany"}
    /\ calls[i].task = 0
    /\ calls'[i].task # 0

\* The requests of the bulk invocation `call` that need the producer now,
\* known once its lookup is back.
requestsNeeded(call) ==
    LET finalRequests == finalRequestsOf(call.reqs)
    IN  elementsAt(finalRequests,
                   elementsAt(cacheableRequests(finalRequests),
                              requestsNeedingProducerNow(call.cacheRes)))

\* What the invocation `call` asks the producer for when it turns to it:
\* its completed request, or (bulk) the list of its requests that need
\* the producer now.
askedOf(call) ==
    IF "req" \in DOMAIN call
    THEN completeRequest(the(call.req))
    ELSE requestsNeeded(call)

\* The bulk invocation i, served by producer call t, has every result of
\* that call at the position of its request, but for an Error that its
\* own usableIfError entry stands in for.
receivedResultsOf(i, t) ==
    LET call == calls[i]
        finalRequests == finalRequestsOf(call.reqs)
        cacheable == cacheableRequests(finalRequests)
        needing == requestsNeedingProducerNow(call.cacheRes)
        results == the(producerCalls[t].result)
    IN  /\ Len(results) = Len(needing)
        /\ (call.pc = "done" /\ the(call.result).ok) =>
               \A k \in 1 .. Len(needing) :
                   LET given == the(the(call.result).value[cacheable[needing[k]]])
                   IN  IF isError(results[k])
                       THEN given =
                               OrElse(call.cacheRes[needing[k]].usableIfError,
                                      results[k])
                       ELSE /\ given.content = results[k].content
                            /\ given.id = finalRequests[cacheable[needing[k]]].id

\* C11: a cacheable request that needs the producer while an identical
\* request (same id, params and directives once completed) is pending that
\* started no more than collapseOverlappingRequestsTime seconds before is
\* merged into it: the producer is not called again and both receive the
\* result of the one call; when there is no such request, or it started
\* earlier than that, the request causes a new producer call of its own.
\* For the bulk wrapper the request is the list of the requests of an
\* invocation that need the producer.
Thm_C11_Collapsing ==
    /\ [](\A t \in storingCalls :
            /\ \A i \in groupOf(t) :
                   /\ askedOf(calls[i]) = producerCalls[t].req
                   /\ \A u \in storingCalls \ {t} :
                          producerCalls[u].by = i =>
                              producerCalls[u].req # askedOf(calls[i])
            /\ producerCalls[t].by \in groupOf(t)
                   \/ (bulkWrapper
                          /\ calls[producerCalls[t].by].refreshTask = t)
            /\ producerCalls[t].state = "resolved" =>
                   \A i \in groupOf(t) :
                       IF singleWrapper
                       THEN miss(i) => resolvedFresh(calls[i].result, t)
                       ELSE receivedResultsOf(i, t))
    /\ [][\A i \in Invocations :
            turnsToProducer(i) =>
                IF overlappingCalls(askedOf(calls'[i])) # {}
                THEN /\ calls'[i].task
                            \in overlappingCalls(askedOf(calls'[i]))
                     /\ producerCalls' = producerCalls
                ELSE /\ producerCalls' =
                            Append(producerCalls,
                                   newProducerCall(askedOf(calls'[i]),
                                                   i, TRUE))
                     /\ calls'[i].task = Len(producerCalls')]_vars

\* Two identical misses were served by one producer call, and both
\* resolved with its result.
Wit_C11_Collapsing ==
    /\ singleWrapper
    /\ Len(producerCalls) = 1
    /\ groupOf(1) = {1, 2}
    /\ miss(1) /\ miss(2)
    /\ producerCalls[1].state = "resolved"
    /\ calls[1].result = calls[2].result
    /\ resolvedFresh(calls[2].result, 1)

\* An identical request arrived while the first call was still pending,
\* but later than the collapsing time allows: it made a call of its own.
Wit_C11_NotMerged ==
    /\ Len(producerCalls) = 2
    /\ producerCalls[1].req = producerCalls[2].req
    /\ producerCalls[1].stores /\ producerCalls[2].stores
    /\ producerCalls[1].state = "pending"
    /\ producerCalls[2].at - producerCalls[1].at
           > collapseOverlappingRequestsTime * MsPerSecond

\* Two identical bulk invocations were served by one call of the bulk
\* producer, and both returned its results.
Wit_C11_BulkCollapsing ==
    /\ bulkWrapper
    /\ Len(producerCalls) = 1
    /\ groupOf(1) = {1, 2}
    /\ Len(producerCalls[1].req) = 2
    /\ producerCalls[1].state = "resolved"
    /\ calls[1].pc = "done" /\ calls[2].pc = "done"
    /\ calls[1].result = calls[2].result

\* C12: when a collapsed producer call fails, every request waiting for it
\* observes that failure: it resolves with its own usableIfError entry if
\* its lookup had one and otherwise rejects with the error of that call;
\* no member of the group calls the producer again.
Thm_C12_CollapsedFailure ==
    \A t \in storingCalls :
        producerCalls[t].state = "rejected" =>
            /\ \A i \in groupOf(t) :
                   /\ calls[i].pc = "done"
                   /\ miss(i) =>
                          calls[i].result =
                              IF calls[i].cacheRes.usableIfError # {}
                              THEN resolved(
                                       the(calls[i].cacheRes.usableIfError))
                              ELSE rejected(ProducerError(t))
                   /\ producerCallsBy(i) \subseteq {t}
            /\ Cardinality({u \in 1 .. Len(producerCalls) :
                               producerCalls[u].by \in groupOf(t)}) = 1

\* Two identical misses shared one producer call, which failed: both
\* rejected with its error, and the producer was called once.
Wit_C12_CollapsedFailure ==
    /\ Len(producerCalls) = 1
    /\ groupOf(1) = {1, 2}
    /\ miss(1) /\ miss(2)
    /\ producerCalls[1].state = "rejected"
    /\ calls[1].result = rejected(ProducerError(1))
    /\ calls[2].result = rejected(ProducerError(1))

\* ------------------------------------------------ uncacheable requests

\* The invocations that have been made.
made == {i \in Invocations : calls[i].pc \notin {"idle", "bulk.idle"}}

\* The completed requests of invocation i, in order (one for the single
\* wrapper).
finalRequestsAt(i) ==
    IF singleWrapper
    THEN <<completeRequest(the(calls[i].req))>>
    ELSE finalRequestsOf(calls[i].reqs)

\* Those of them that isCacheable refuses, in order.
uncacheableAt(i) ==
    elementsAt(finalRequestsAt(i), nonCacheableRequests(finalRequestsAt(i)))

\* The producer call invocation i makes for its uncacheable requests.
uncacheableCallOf(i) ==
    IF singleWrapper THEN calls[i].task ELSE calls[i].uncacheableTask

\* Producer call t is awaited by no invocation but i, and the collapser
\* does not know it.
notShared(t, i) ==
    /\ \A p \in pendingTasks : p.task # t
    /\ \A j \in Invocations \ {i} :
           /\ calls[j].task # t
           /\ bulkWrapper =>
                  calls[j].refreshTask # t /\ calls[j].uncacheableTask # t
    /\ bulkWrapper => calls[i].task # t /\ calls[i].refreshTask # t

\* C13: every invocation with requests that isCacheable refuses has made
\* a producer call of its own for exactly those requests, which no other
\* invocation shares; the cache was not read for them; nothing of the
\* result of that call went to Cache.store; and no call whose result is
\* stored, or that the collapser holds, carries such a request.
Thm_C13_Uncacheable ==
    /\ \A i \in made :
           uncacheableAt(i) # <<>> =>
               LET t == uncacheableCallOf(i)
               IN  /\ t \in 1 .. Len(producerCalls)
                   /\ producerCalls[t].by = i
                   /\ producerCalls[t].req =
                          IF singleWrapper
                          THEN uncacheableAt(i)[1]
                          ELSE uncacheableAt(i)
                   /\ ~producerCalls[t].stores
                   /\ notShared(t, i)
                   /\ storeCallsOf(t) = {}
                   /\ IF singleWrapper
                      THEN calls[i].get = "none"
                      ELSE Len(calls[i].cacheRes)
                               <= Len(cacheableRequests(finalRequestsAt(i)))
    /\ \A t \in storingCalls :
           LET reqs == IF singleWrapper
                       THEN <<producerCalls[t].req>>
                       ELSE producerCalls[t].req
           IN  \A k \in 1 .. Len(reqs) :
                   isCacheable(reqs[k].id, reqs[k].params)
    /\ \A w \in 1 .. Len(storeCalls) :
           \A k \in 1 .. Len(storeCalls[w].data) :
               storeCalls[w].data[k].id \notin UncacheableIds

\* Two invocations with the same uncacheable request were under way at
\* once: each had its own producer call, and when both calls had resolved
\* nothing had gone to Cache.store.
Wit_C13_Uncacheable ==
    /\ Len(producerCalls) = 2
    /\ uncacheableAt(1) # <<>>
    /\ uncacheableAt(2) = uncacheableAt(1)
    /\ producerCalls[uncacheableCallOf(1)].by = 1
    /\ producerCalls[uncacheableCallOf(2)].by = 2
    /\ producerCalls[uncacheableCallOf(1)].at
           = producerCalls[uncacheableCallOf(2)].at
    /\ producerCalls[1].state = "resolved"
    /\ producerCalls[2].state = "resolved"
    /\ storeCalls = <<>>

\* ------------------------------------------------- cache read failure

\* The cache read of invocation i has rejected: the backing store's read
\* failed, or the Cache was closed and throws.
readRejected(i) ==
    /\ calls[i].get \in {"failed", "rejected"}
    /\ calls[i].pc \notin {"cache.get", "cache.getMany"}

\* The promise `result` rejected with `error`.
rejectedWith(result, error) ==
    \E r \in result : ~r.ok /\ r.value = error

\* The cacheable requests of invocation i, in order.
cacheableAt(i) ==
    elementsAt(finalRequestsAt(i), cacheableRequests(finalRequestsAt(i)))

\* C14: when the cache read rejects and onCacheReadFailure is
\* "call-producer", the invocation goes on as on a miss with no cached
\* candidates: its lookup result is empty for every cacheable request, one
\* producer call (its own, or the pending identical one it is merged into)
\* carries every cacheable request of the invocation, the invocation
\* returns what that call gives, and it never rejects with the cache's
\* error.
Thm_C14_ReadFailureCallsProducer ==
    \A i \in made :
        (readRejected(i) /\ options.onCacheReadFailure = "call-producer") =>
            LET t == calls[i].task
            IN  /\ ~rejectedWith(calls[i].result, CacheReadError)
                /\ t \in storingCalls
                /\ IF singleWrapper
                   THEN /\ calls[i].cacheRes = NoEntries
                        /\ miss(i)
                        /\ Len(calls[i].published) = 1
                        /\ calls[i].published[1][1] \in {"miss", "bypass"}
                        /\ producerCalls[t].req = cacheableAt(i)[1]
                        /\ producerCalls[t].state = "pending" =>
                               calls[i].pc = "producer"
                        /\ producerCalls[t].state = "resolved" =>
                               resolvedFresh(calls[i].result, t)
                        /\ producerCalls[t].state = "rejected" =>
                               rejectedWith(calls[i].result,
                                            ProducerError(t))
                   ELSE /\ \A k \in 1 .. Len(calls[i].cacheRes) :
                               calls[i].cacheRes[k] = NoEntries
                        /\ Len(calls[i].cacheRes) = Len(cacheableAt(i))
                        /\ producerCalls[t].req = cacheableAt(i)
                        /\ calls[i].refreshTask = 0
                        /\ producerCalls[t].state = "pending" =>
                               calls[i].pc = "bulk.producer"
                        /\ producerCalls[t].state = "resolved" =>
                               /\ calls[i].pc # "bulk.producer"
                               /\ receivedResultsOf(i, t)

\* The store held a usable entry for the request, the read failed, and
\* the invocation resolved with the result of a new producer call.
Wit_C14_ReadFailureCallsProducer ==
    \E i \in made :
        /\ singleWrapper
        /\ calls[i].get = "failed"
        /\ options.onCacheReadFailure = "call-producer"
        /\ \E it \in rows :
               /\ it.id = cacheableAt(i)[1].id
               /\ classify(it, cacheableAt(i)[1].directives,
                           calls[i].getNow) = Usable
        /\ producerCalls[calls[i].task].by = i
        /\ producerCalls[calls[i].task].state = "resolved"
        /\ resolvedFresh(calls[i].result, calls[i].task)

\* The same for a bulk invocation, which returned the producer's results
\* for both its requests.
Wit_C14_BulkReadFailure ==
    \E i \in made :
        /\ bulkWrapper
        /\ calls[i].get = "failed"
        /\ options.onCacheReadFailure = "call-producer"
        /\ Len(cacheableAt(i)) = 2
        /\ calls[i].pc = "done"
        /\ the(calls[i].result).ok
        /\ producerCalls[calls[i].task].state = "resolved"
        /\ rows # {}

\* C15, as the specification states it: when the cache read rejects and
\* onCacheReadFailure is "throw", the invocation (single or bulk) rejects
\* with the cache's error and has made no producer call.
Orig_C15_ReadFailureThrows ==
    \A i \in made :
        (readRejected(i) /\ options.onCacheReadFailure = "throw") =>
            /\ calls[i].pc = "done"
            /\ rejectedWith(calls[i].result, CacheReadError)
            /\ producerCallsBy(i) = {}

\* What holds of a failed read under "throw": the invocation rejects with
\* the cache's error, and the producer is not called for a cacheable
\* request.
ReadFailureThrows ==
    \A i \in made :
        (readRejected(i) /\ options.onCacheReadFailure = "throw") =>
            /\ calls[i].pc = "done"
            /\ rejectedWith(calls[i].result, CacheReadError)
            /\ calls[i].task = 0
            /\ \A t \in producerCallsBy(i) : ~producerCalls[t].stores

\* ------------------------------------------------ cache write failure

\* The Cache.store call w failed: the backing store's write failed, or the
\* Cache was closed and throws.
writeFailed(w) == storeCalls[w].state \in {"failed", "rejected"}

\* C16: the outcome of the Cache.store call made after a producer call
\* never reaches the caller: whatever the state of the write (under way,
\* failed, rejected because the Cache is closed), every invocation that
\* awaited the producer call has gone on with the producer's result, and
\* no invocation rejects with anything but the cache's read error or the
\* producer's.
Thm_C16_WriteFailureSwallowed ==
    /\ \A w \in 1 .. Len(storeCalls) :
           LET t == storeCalls[w].by
           IN  /\ producerCalls[t].state = "resolved"
               /\ \A i \in groupOf(t) :
                      IF singleWrapper
                      THEN miss(i) =>
                               /\ calls[i].pc = "done"
                               /\ resolvedFresh(calls[i].result, t)
                      ELSE /\ calls[i].pc \in {"bulk.uncacheable", "done"}
                           /\ receivedResultsOf(i, t)
                           /\ calls[i].pc = "done" =>
                                  \/ the(calls[i].result).ok
                                  \/ /\ calls[i].uncacheableTask # 0
                                     /\ rejectedWith(
                                            calls[i].result,
                                            ProducerError(
                                                calls[i].uncacheableTask))
    /\ \A i \in made :
           \A r \in calls[i].result :
               ~r.ok => r.value.error \in {"cache", "producer"}

\* The Cache was closed when the producer's result came, so that
\* Cache.store rejected the call; the invocation resolved with the
\* producer's result all the same.
Wit_C16_WriteFailureSwallowed ==
    \E w \in 1 .. Len(storeCalls) :
        /\ storeCalls[w].state = "rejected"
        /\ \E i \in groupOf(storeCalls[w].by) :
               /\ singleWrapper
               /\ miss(i)
               /\ resolvedFresh(calls[i].result, storeCalls[w].by)

\* The write of the backing store failed, for a bulk invocation that had
\* returned the producer's results.
Wit_C16_BulkWriteFailed ==
    \E w \in 1 .. Len(storeCalls) :
        /\ bulkWrapper
        /\ storeCalls[w].state = "failed"
        /\ \E i \in groupOf(storeCalls[w].by) :
               calls[i].pc = "done" /\ the(calls[i].result).ok

\* The invocation had resolved while the write was still under way.
Wit_C16_NotAwaited ==
    \E w \in 1 .. Len(storeCalls) :
        /\ storeCalls[w].state = "writing"
        /\ \E i \in groupOf(storeCalls[w].by) :
               calls[i].pc = "done" /\ the(calls[i].result).ok

\* ---------------------------------------------- supplemental resources

\* The requests and the results of producer call t, paired in order (one
\* pair for the single wrapper).
answersOf(t) ==
    IF singleWrapper
    THEN <<[req |-> producerCalls[t].req,
            result |-> the(producerCalls[t].result)]>>
    ELSE [k \in 1 .. Len(producerCalls[t].req) |->
             [req |-> producerCalls[t].req[k],
              result |-> the(producerCalls[t].result)[k]]]

\* The entry e is held under the id and vary of a supplemental resource
\* of the producer.
isSupplemental(e) ==
    /\ e.id = SupplementalResource(0).id
    /\ e.vary = normalizeVary(the(SupplementalResource(0).vary))

\* The lookup results of invocation i, one per cacheable request.
lookupsOf(call) ==
    IF "req" \in DOMAIN call THEN <<call.cacheRes>> ELSE call.cacheRes

\* What invocation i returned for its k-th cacheable request.
returnedFor(i, k) ==
    IF singleWrapper
    THEN the(calls[i].result).value
    ELSE the(the(calls[i].result).value[
                 cacheableRequests(finalRequestsAt(i))[k]])

\* Invocation i has returned.
returned(i) ==
    calls[i].pc = "done" /\ \E r \in calls[i].result : r.ok

\* C17: the supplemental resources of a result for a cacheable request go
\* to Cache.store in the call that carries the primary resource, as they
\* are, and a successful write leaves each in the store under its own id
\* and vary; what an invocation returns for a request carries the id of
\* the request and no supplemental resources; and a request whose lookup
\* finds a fresh entry held under a supplemental resource's id and vary
\* is answered with a usable entry of the store, by an invocation that
\* asks the producer nothing for it.
Thm_C17_SupplementalResources ==
    /\ [](\A t \in storingCalls :
            producerCalls[t].state = "resolved" =>
                \A a \in 1 .. Len(answersOf(t)) :
                    ~isError(answersOf(t)[a].result) =>
                        /\ Cardinality(storeCallsOf(t)) = 1
                        /\ LET data == storeCalls[the(storeCallsOf(t))].data
                               result == answersOf(t)[a].result
                           IN  /\ \E j \in 1 .. Len(data) :
                                      /\ data[j].id = answersOf(t)[a].req.id
                                      /\ data[j].content = result.content
                               /\ \A k \in 1 .. Len(result.supplementalResources) :
                                      \E j \in 1 .. Len(data) :
                                          data[j] = result.supplementalResources[k])
    /\ [](\A i \in made :
            returned(i) =>
                \A k \in 1 .. Len(cacheableAt(i)) :
                    /\ "supplementalResources" \notin DOMAIN returnedFor(i, k)
                    /\ returnedFor(i, k).id = cacheableAt(i)[k].id)
    /\ [](\A i \in made :
            \A k \in 1 .. Len(lookupsOf(calls[i])) :
                \A e \in lookupsOf(calls[i])[k].usable :
                    isSupplemental(e) =>
                        /\ IF singleWrapper
                           THEN calls[i].task = 0 /\ producerCallsBy(i) = {}
                           ELSE \A t \in producerCallsBy(i) :
                                    \A a \in 1 .. Len(producerCalls[t].req) :
                                        producerCalls[t].req[a]
                                            # cacheableAt(i)[k]
                        /\ returned(i) => returnedFor(i, k) = e)
    /\ [][\A w \in 1 .. Len(storeCalls) :
            (storeCalls[w].state = "writing" /\ storeCalls'[w].state = "stored")
                => \A k \in 1 .. Len(storeCalls[w].data) :
                       \E e \in rows' :
                           /\ e.id = storeCalls[w].data[k].id
                           /\ e.vary = normalizeVary(
                                           OrElse(storeCalls[w].data[k].vary,
                                                  {}))]_vars
    /\ [][\A i \in made :
            (/\ calls[i].pc \in {"cache.get", "cache.getMany"}
             /\ calls'[i].pc # calls[i].pc
             /\ calls'[i].get = "reading")
                => \A k \in 1 .. Len(cacheableAt(i)) :
                       (\E e \in rows :
                           /\ isSupplemental(e)
                           /\ e.id = cacheableAt(i)[k].id
                           /\ e.vary \subseteq
                                  normalizeParams(cacheableAt(i)[k].params)
                           /\ classify(e, cacheableAt(i)[k].directives,
                                       calls[i].getNow) = Usable)
                           => \E u \in lookupsOf(calls'[i])[k].usable :
                                  u \in rows /\ u.id = cacheableAt(i)[k].id]_vars

\* A request for the id and params of a supplemental resource, made after
\* a miss whose result carried that resource, was answered with it from
\* the cache; the producer had been called once.
Wit_C17_SupplementalResources ==
    /\ singleWrapper
    /\ miss(1)
    /\ hit(2)
    /\ Len(producerCalls) = 1
    /\ producerCalls[1].state = "resolved"
    /\ the(producerCalls[1].result).supplementalResources # <<>>
    /\ isSupplemental(the(calls[2].result).value)
    /\ the(calls[2].result).value.content
           = the(producerCalls[1].result).supplementalResources[1].content

\* The same through the bulk wrapper: the second invocation returned the
\* supplemental resource of the first one's result for its request.
Wit_C17_BulkSupplemental ==
    /\ bulkWrapper
    /\ returned(1) /\ returned(2)
    /\ \E k \in 1 .. Len(calls[2].cacheRes) :
           /\ calls[2].cacheRes[k].usable # {}
           /\ isSupplemental(returnedFor(2, k))

\* ------------------------------------------- the id of the primary resource

\* C18, as the specification states it: the primary resource that goes to
\* Cache.store after a producer call, and the resource an invocation
\* returns from a producer call, carry the id of the request, whatever id
\* the producer's result has.
Orig_C18_PrimaryCarriesRequestId ==
    /\ \A w \in 1 .. Len(storeCalls) :
           storeCalls[w].data[1].id = producerCalls[storeCalls[w].by].req.id
    /\ \A i \in Invocations :
           (/\ calls[i].task # 0
            /\ calls[i].pc = "done"
            /\ producerCalls[calls[i].task].state = "resolved"
            /\ calls[i].cacheRes.usableWhileRevalidate = {})
               => the(calls[i].result).value.id = completedRequestOf(i).id

\* The primary resource carries the id of the producer's result when the
\* result has one, and the id of the request when it has none.
PrimaryCarriesResultId ==
    /\ \A w \in 1 .. Len(storeCalls) :
           storeCalls[w].data[1].id =
               OrElse(the(producerCalls[storeCalls[w].by].result).id,
                      producerCalls[storeCalls[w].by].req.id)
    /\ \A i \in Invocations :
           (/\ calls[i].task # 0
            /\ calls[i].pc = "done"
            /\ producerCalls[calls[i].task].state = "resolved"
            /\ calls[i].cacheRes.usableWhileRevalidate = {})
               => the(calls[i].result).value.id =
                      OrElse(the(producerCalls[calls[i].task].result).id,
                             completedRequestOf(i).id)

\* ------------------------------------------ the bulk wrapper's output

\* How many of the first k of `finalRequests` are cacheable
\* (`wanted` TRUE) or not (`wanted` FALSE).
rank(finalRequests, k, wanted) ==
    Cardinality({j \in 1 .. k :
        isCacheable(finalRequests[j].id, finalRequests[j].params) = wanted})

\* The lookup result of the bulk invocation i for its k-th request, a
\* cacheable one.
lookupAt(i, k) == calls[i].cacheRes[rank(finalRequestsAt(i), k, TRUE)]

\* The lookup left the request to the producer.
needsProducer(lookup) ==
    lookup.usable = {} /\ lookup.usableWhileRevalidate = {}

\* What the producer returned for the k-th request of the bulk invocation
\* i: the result at the request's place among the uncacheable requests, or
\* among the cacheable requests that needed the producer.
producerResultAt(i, k) ==
    LET finalRequests == finalRequestsAt(i)
        req == finalRequests[k]
        cacheable == isCacheable(req.id, req.params)
        place ==
            IF cacheable
            THEN Cardinality({j \in 1 .. rank(finalRequests, k, TRUE) :
                                 needsProducer(calls[i].cacheRes[j])})
            ELSE rank(finalRequests, k, FALSE)
        t == IF cacheable THEN calls[i].task ELSE calls[i].uncacheableTask
    IN  the(producerCalls[t].result)[place]

\* The output of the bulk invocation i at position k.
outputAt(i, k) == the(the(calls[i].result).value[k])

\* The output at position k is what belongs to the k-th request: the
\* usable or usableWhileRevalidate entry of its lookup, or what the
\* producer returned for it (an Error giving way to the lookup's
\* usableIfError entry).
belongsToRequest(i, k) ==
    LET req == finalRequestsAt(i)[k]
        out == outputAt(i, k)
    IN  IF ~isCacheable(req.id, req.params)
        THEN IF isError(producerResultAt(i, k))
             THEN out = producerResultAt(i, k)
             ELSE /\ out.id = req.id
                  /\ out.content = producerResultAt(i, k).content
        ELSE IF lookupAt(i, k).usable # {}
        THEN out = the(lookupAt(i, k).usable) /\ out.id = req.id
        ELSE IF lookupAt(i, k).usableWhileRevalidate # {}
        THEN /\ out = the(lookupAt(i, k).usableWhileRevalidate)
             /\ out.id = req.id
        ELSE IF isError(producerResultAt(i, k))
        THEN out = OrElse(lookupAt(i, k).usableIfError,
                          producerResultAt(i, k))
        ELSE /\ out.id = req.id
             /\ out.content = producerResultAt(i, k).content

\* C19: the output of the bulk wrapper has the length of its input, and
\* output[k] is the entry or Error that belongs to input[k], whichever of
\* the producer calls of the invocation resolved first.
Thm_C19_BulkOrder ==
    \A i \in made :
        returned(i) =>
            /\ Len(the(calls[i].result).value) = Len(calls[i].reqs)
            /\ \A k \in 1 .. Len(calls[i].reqs) :
                   /\ the(calls[i].result).value[k] # {}
                   /\ belongsToRequest(i, k)

\* An invocation whose first request is uncacheable and whose second
\* needed the producer returned both results in their places, though the
\* call for the second request resolved before the call for the first.
Wit_C19_BulkOrder ==
    \E i \in made :
        /\ returned(i)
        /\ Len(calls[i].reqs) = 2
        /\ calls[i].uncacheableTask # 0
        /\ calls[i].task # 0
        /\ calls[i].uncacheableTask < calls[i].task
        /\ calls[i].pairs[1][1] = 2
        /\ ~isError(outputAt(i, 1))
        /\ ~isError(outputAt(i, 2))
        /\ outputAt(i, 1).id = "u"
        /\ outputAt(i, 2).id = "a"

\* Two equal requests in one list: each got the result the producer
\* returned at its own place.
Wit_C19_Duplicates ==
    \E i \in made :
        /\ returned(i)
        /\ Len(calls[i].reqs) = 2
        /\ calls[i].reqs[1] = calls[i].reqs[2]
        /\ ~isError(outputAt(i, 1))
        /\ ~isError(outputAt(i, 2))
        /\ outputAt(i, 1).content # outputAt(i, 2).content

\* A stale-while-revalidate answer and a hit in one list.
Wit_C19_Mixed ==
    \E i \in made :
        /\ returned(i)
        /\ Len(calls[i].cacheRes) = 2
        /\ calls[i].cacheRes[1].usableWhileRevalidate # {}
        /\ outputAt(i, 1) = the(calls[i].cacheRes[1].usableWhileRevalidate)
        /\ calls[i].cacheRes[2].usable # {}
        /\ outputAt(i, 2) = the(calls[i].cacheRes[2].usable)
        /\ outputAt(i, 1).id # outputAt(i, 2).id

\* C20: when the bulk producer returns an Error for a request that needed
\* it, the output holds the usableIfError entry of the request's lookup,
\* or, without one, that Error, at the request's position, and every
\* other position holds what belongs to its request; the Cache.store call
\* made with the results of a producer call carries the resources of the
\* results that are not Errors and nothing else, and there is no such
\* call when every result is an Error.
Thm_C20_BulkElementErrors ==
    /\ \A i \in made :
           returned(i) =>
               \A k \in 1 .. Len(calls[i].reqs) :
                   LET req == finalRequestsAt(i)[k]
                   IN  IF /\ isCacheable(req.id, req.params)
                          /\ needsProducer(lookupAt(i, k))
                          /\ isError(producerResultAt(i, k))
                       THEN outputAt(i, k) =
                                IF lookupAt(i, k).usableIfError # {}
                                THEN the(lookupAt(i, k).usableIfError)
                                ELSE producerResultAt(i, k)
                       ELSE /\ ~isError(outputAt(i, k))
                                   \/ ~isCacheable(req.id, req.params)
                            /\ belongsToRequest(i, k)
    /\ \A t \in storingCalls :
           producerCalls[t].state = "resolved" =>
               LET results == the(producerCalls[t].result)
                   good == {k \in 1 .. Len(results) : ~isError(results[k])}
               IN  /\ (good = {}) = (storeCallsOf(t) = {})
                   /\ Cardinality(storeCallsOf(t)) <= 1
                   /\ \A w \in storeCallsOf(t) :
                          /\ \A j \in 1 .. Len(storeCalls[w].data) :
                                 \E k \in good :
                                     storeCalls[w].data[j].content
                                         = results[k].content
                          /\ \A k \in good :
                                 \E j \in 1 .. Len(storeCalls[w].data) :
                                     /\ storeCalls[w].data[j].id
                                            = producerCalls[t].req[k].id
                                     /\ storeCalls[w].data[j].content
                                            = results[k].content

\* Of two requests that needed the producer one got an Error and had a
\* usableIfError entry, which the output holds; the other got its fresh
\* result; only the resources of the latter went to Cache.store.
Wit_C20_BulkElementErrors ==
    \E i \in made :
        /\ returned(i)
        /\ Len(calls[i].reqs) = 2
        /\ calls[i].task # 0
        /\ Len(producerCalls[calls[i].task].req) = 2
        /\ isError(producerResultAt(i, 1))
        /\ lookupAt(i, 1).usableIfError # {}
        /\ outputAt(i, 1) = the(lookupAt(i, 1).usableIfError)
        /\ ~isError(producerResultAt(i, 2))
        /\ outputAt(i, 2).content = producerResultAt(i, 2).content
        /\ \E w \in storeCallsOf(calls[i].task) :
               \A j \in 1 .. Len(storeCalls[w].data) :
                   storeCalls[w].data[j].content
                       = producerResultAt(i, 2).content

\* Every result of a producer call was an Error: the output holds the
\* Errors, and Cache.store was never called.
Wit_C20_AllFailed ==
    \E i \in made :
        /\ returned(i)
        /\ Len(calls[i].reqs) = 2
        /\ isError(outputAt(i, 1))
        /\ isError(outputAt(i, 2))
        /\ outputAt(i, 1) # outputAt(i, 2)
        /\ storeCalls = <<>>

\* -------------------------------------------------- lookups in the Cache

\* The lookups the Cache answered from the backing store: the request,
\* the rows the store held when it answered, the instant the Cache
\* captured, and the result the Cache returned.
cacheLookups ==
    {[req |-> calls[i].arg, rows |-> the(calls[i].seen[1]),
      at |-> calls[i].at, res |-> the(calls[i].result).value] :
        i \in {j \in 1 .. NumOps :
                  /\ calls[j].op = "get"
                  /\ calls[j].pc = "done"
                  /\ calls[j].seen # <<>>}}
    \cup
    UNION {{[req |-> calls[i].arg[k], rows |-> the(calls[i].seen[k]),
             at |-> calls[i].at, res |-> the(calls[i].result).value[k]] :
               k \in 1 .. Len(calls[i].arg)} :
           i \in {j \in 1 .. NumOps :
                     /\ calls[j].op = "getMany"
                     /\ calls[j].pc = "done"
                     /\ calls[j].seen # <<>>}}

\* The candidates of a lookup: what the backing store returned for it.
candidates(l) == storeGet(l.rows, l.req.id, normalizeParams(l.req.params))

\* The candidates of a lookup that classify as c.
bucket(l, c) ==
    {e \in candidates(l) : classify(e, l.req.directives, l.at) = c}

\* C22: a result of Cache.get or Cache.getMany holds an entry in at most
\* one of usable, usableWhileRevalidate and usableIfError: with a Usable
\* candidate only `usable` is set and `validatable` is empty; otherwise
\* with a UsableWhileRevalidate candidate only `usableWhileRevalidate`
\* is set; `usableIfError` is set only when no candidate is Usable or
\* UsableWhileRevalidate.
Thm_C22_OneBucket ==
    \A l \in cacheLookups :
        /\ Cardinality({f \in {"usable", "usableWhileRevalidate",
                               "usableIfError"} : l.res[f] # {}}) <= 1
        /\ bucket(l, Usable) # {} =>
               /\ l.res.usable # {}
               /\ l.res.usableWhileRevalidate = {}
               /\ l.res.usableIfError = {}
               /\ l.res.validatable = {}
        /\ bucket(l, Usable) = {} /\ bucket(l, UsableWhileRevalidate) # {} =>
               /\ l.res.usable = {}
               /\ l.res.usableWhileRevalidate # {}
               /\ l.res.usableIfError = {}
        /\ l.res.usableIfError # {} =>
               /\ bucket(l, Usable) = {}
               /\ bucket(l, UsableWhileRevalidate) = {}
               /\ bucket(l, UsableIfError) # {}

\* A lookup had a Usable candidate with validators and a
\* UsableWhileRevalidate one: the result holds the first as `usable` and
\* nothing else.
Wit_C22_OneBucket ==
    \E l \in cacheLookups :
        /\ \E e \in bucket(l, Usable) : isValidatable(e)
        /\ bucket(l, UsableWhileRevalidate) # {}
        /\ l.res.usable # {}
        /\ l.res.usableWhileRevalidate = {}
        /\ l.res.validatable = {}

\* A lookup had a UsableWhileRevalidate candidate and a UsableIfError
\* one: the result holds the first alone.
Wit_C22_StaleBuckets ==
    \E l \in cacheLookups :
        /\ bucket(l, UsableWhileRevalidate) # {}
        /\ bucket(l, UsableIfError) # {}
        /\ l.res.usableWhileRevalidate # {}
        /\ l.res.usableIfError = {}

\* The entry a lookup returned, as a set, and the classification that won.
returnedEntry(l) ==
    l.res.usable \cup l.res.usableWhileRevalidate \cup l.res.usableIfError

winningClassification(l) ==
    IF l.res.usable # {} THEN Usable
    ELSE IF l.res.usableWhileRevalidate # {} THEN UsableWhileRevalidate
    ELSE UsableIfError

Thm_C24_Validatable ==
    \A l \in cacheLookups :
        bucket(l, Usable) = {} =>
            l.res.validatable = {e \in candidates(l) : e.validators # {}}

\* A lookup without a Usable candidate returned an Unusable candidate
\* among `validatable` and left a candidate without validators out.
Wit_C24_Validatable ==
    \E l \in cacheLookups :
        /\ bucket(l, Usable) = {}
        /\ \E e \in bucket(l, Unusable) : e \in l.res.validatable
        /\ \E e \in candidates(l) : e \notin l.res.validatable

\* A lookup returned the same entry as usableWhileRevalidate or
\* usableIfError and among `validatable`.
Wit_C24_ReturnedTwice ==
    \E l \in cacheLookups :
        /\ l.res.usable = {}
        /\ \E e \in returnedEntry(l) : e \in l.res.validatable

\* Vary compatibility as the documentation of Vary states it: every key
\* of the vary has the same value among the params, and a key mapped to
\* null matches when the params have no value for it.
compatible(vary, params) ==
    \A v \in vary :
        IF v[2] = NullValue
        THEN \A p \in params : p[1] # v[1]
        ELSE v \in params

compatibleEntries(l) ==
    {e \in l.rows :
        e.id = l.req.id /\ compatible(e.vary, normalizeParams(l.req.params))}

\* C25: the candidates of a lookup are exactly the entries stored under
\* the request's id whose vary is compatible with the normalized params,
\* a vary key mapped to null matching iff the param is missing; a lookup
\* without such an entry returns {usableIfError: undefined,
\* validatable: []}.
Orig_C25_VaryMatching ==
    \A l \in cacheLookups :
        /\ candidates(l) = compatibleEntries(l)
        /\ compatibleEntries(l) = {} => l.res = NoEntries

\* The same for the entries whose vary maps no key to null.
VaryMatchingWithoutNull ==
    \A l \in cacheLookups :
        /\ candidates(l) =
               {e \in compatibleEntries(l) : \A v \in e.vary : v[2] # NullValue}
        /\ candidates(l) = {} => l.res = NoEntries

\* The getMany operations the Cache answered from the backing store.
answeredGetMany ==
    {i \in 1 .. NumOps :
        /\ calls[i].op = "getMany"
        /\ calls[i].pc = "done"
        /\ calls[i].seen # <<>>}

\* C26: Cache.getMany returns a list as long as its input whose k-th
\* element is what Cache.get returns for the k-th request against the
\* same store contents at the one instant getMany captured when it was
\* called; a Cache.get that saw the same contents at the same instant
\* returned the same.
Thm_C26_GetManyAsGet ==
    \A i \in answeredGetMany :
        /\ Len(the(calls[i].result).value) = Len(calls[i].arg)
        /\ \A k \in 1 .. Len(calls[i].arg) :
               /\ the(calls[i].result).value[k] =
                      cacheGetResult(calls[i].arg[k], the(calls[i].seen[k]),
                                     calls[i].at)
               /\ \A j \in 1 .. NumOps :
                      /\ calls[j].op = "get"
                      /\ calls[j].pc = "done"
                      /\ calls[j].seen = <<calls[i].seen[k]>>
                      /\ calls[j].arg = calls[i].arg[k]
                      /\ calls[j].at = calls[i].at
                      => calls[j].result =
                             resolved(the(calls[i].result).value[k])

\* getMany answered two requests from a store holding entries, with a
\* different entry for each, after the clock had moved on from the
\* instant it captured.
Wit_C26_GetManyAsGet ==
    \E i \in answeredGetMany :
        /\ Len(calls[i].arg) = 2
        /\ the(calls[i].result).value[1].usable # {}
        /\ the(calls[i].result).value[2].usable # {}
        /\ the(calls[i].result).value[1] # the(calls[i].result).value[2]
        /\ now > calls[i].at

\* ------------------------------------------------------------ after close

\* Operation j was called after close(): operations are called in the
\* order of their numbers.
calledAfterClose(j) ==
    /\ calls[j].op \in {"get", "getMany", "store"}
    /\ \E i \in 1 .. j - 1 : calls[i].op = "close"

\* Operation j applied the after-close policy: it settled without a read
\* of, or a write to, the backing store and without a "store" event,
\* rejecting under "throw" and else resolving to no entries (get), to no
\* entries per request (getMany) or to nothing (store).
appliedPolicy(j) ==
    /\ calls[j].pc = "done"
    /\ calls[j].log = <<>>
    /\ calls[j].seen = <<>>
    /\ calls[j].result =
           CASE calls[j].op = "get" ->
                    IF options.onGetAfterClose = "throw"
                    THEN rejected(CacheClosedError)
                    ELSE resolved(NoEntries)
             [] calls[j].op = "getMany" ->
                    IF options.onGetAfterClose = "throw"
                    THEN rejected(CacheClosedError)
                    ELSE resolved([k \in 1 .. Len(calls[j].arg) |-> NoEntries])
             [] calls[j].op = "store" ->
                    IF options.onStoreAfterClose = "throw"
                    THEN rejected(CacheClosedError)
                    ELSE resolved(UndefinedValue)

\* C27: after close() every get, getMany and store applies the
\* configured after-close policy without contacting the backing store:
\* under "throw" the call rejects; otherwise get resolves to
\* {validatable: []}, getMany to one such result per request, and store
\* resolves with nothing written and no "store" event.
Orig_C27_AfterClose ==
    \A j \in 1 .. NumOps : calledAfterClose(j) => appliedPolicy(j)

\* The same for every call but getMany with the empty list.
AfterCloseButEmptyGetMany ==
    \A j \in 1 .. NumOps :
        calledAfterClose(j) /\ ~(calls[j].op = "getMany" /\ calls[j].arg = <<>>)
        => appliedPolicy(j)

\* Calls after close under each policy, with nothing read or written.
AfterCloseCases ==
    /\ closed
    /\ \E j \in 1 .. NumOps :
           /\ calledAfterClose(j)
           /\ calls[j].op = "getMany"
           /\ Len(calls[j].arg) = 2
           /\ appliedPolicy(j)

\* C28: Cache.close sets the closed flag and forwards its timeout to
\* the backing store; the flag is never reset, so a second close leaves
\* the Cache closed.
Thm_C28_CloseIdempotent ==
    /\ [](\A i \in 1 .. NumOps :
              calls[i].op = "close" =>
                  /\ closed
                  /\ calls[i].log = <<[did |-> "close", what |-> calls[i].arg]>>)
    /\ [][closed => closed']_vars

\* close() was called twice, with and without a timeout, and the Cache
\* is closed.
Wit_C28_CloseIdempotent ==
    /\ closed
    /\ calls[1].op = "close"
    /\ calls[2].op = "close"
    /\ calls[1].arg # calls[2].arg

\* ------------------------------------------------------------ Cache.store

\* The store operations called on an open Cache.
storesWhileOpen ==
    {i \in 1 .. NumOps : calls[i].op = "store" /\ calls[i].log # <<>>}

\* C29: Cache.store on an open Cache emits exactly one "store" event per
\* input resource, in input order, each with the normalized entry and
\* its maxStoreForSeconds, and all of them before the backing store's
\* write is invoked: the events are there also when the write fails.
Thm_C29_StoreEvents ==
    \A i \in storesWhileOpen :
        LET data == calls[i].arg
            log == calls[i].log
        IN  /\ Len(log) = Len(data) + 1
            /\ log[Len(data) + 1].did = "write"
            /\ \A k \in 1 .. Len(data) :
                   /\ log[k].did = "emit"
                   /\ log[k].what.entry =
                          normalizeProducerResultResource(
                              data[k], {calls[i].at}, calls[i].at)
                   /\ log[k].what.maxStoreForSeconds =
                          calculateStoreFor(log[k].what.entry, calls[i].at)

\* A store of two resources whose write failed: Cache.store rejected
\* with the backing store's error after the two events, which differ.
Wit_C29_StoreEvents ==
    \E i \in storesWhileOpen :
        /\ Len(calls[i].arg) = 2
        /\ rejectedWith(calls[i].result, [error |-> "store", call |-> i])
        /\ calls[i].log[1].did = "emit"
        /\ calls[i].log[2].did = "emit"
        /\ calls[i].log[1] # calls[i].log[2]
        /\ rows = {}

\* The "store" events of the entries with a producer storeFor: the
\* entry, what the event gave as maxStoreForSeconds, and the instant
\* Cache.store captured.
storeForEvents ==
    UNION {{[entry |-> calls[i].log[k].what.entry,
             maxStoreForSeconds |-> calls[i].log[k].what.maxStoreForSeconds,
             at |-> calls[i].at] :
               k \in {j \in 1 .. Len(calls[i].arg) :
                         calls[i].log[j].what.entry.directives.storeFor # {}}} :
           i \in storesWhileOpen}

\* C30: storeFor counts from the birth of the content: an entry with
\* producer storeFor S stored at an instant is given at most
\* max(0, S - age(entry, instant)) seconds in the store, also when the
\* resource's date is earlier than that instant.
Orig_C30_StoreForFromBirth ==
    \A e \in storeForEvents :
        e.maxStoreForSeconds <=
            Max(0, the(e.entry.directives.storeFor) - age(e.entry, e.at))

\* The same for the resources whose date is the instant of the store.
StoreForFromBirthWhenDateIsNow ==
    \A e \in storeForEvents :
        e.entry.date = e.at =>
            e.maxStoreForSeconds <=
                Max(0, the(e.entry.directives.storeFor) - age(e.entry, e.at))

\* An entry with an initial age and a storeFor, dated at the instant of
\* the store, was given the rest of its storeFor.
StoreForFromBirthCase ==
    \E e \in storeForEvents :
        /\ e.entry.date = e.at
        /\ e.entry.initialAge > 0
        /\ e.maxStoreForSeconds =
               the(e.entry.directives.storeFor) - e.entry.initialAge

\* --------------------------------------------- one request, both wrappers

\* What either wrapper shows of an invocation with one cacheable request:
\* the lookup result, the producer call that serves it, and the output,
\* the single wrapper's rejection standing for the Error the bulk wrapper
\* returns in the list.
oneLooked(i) == calls[i].pc \in {"producer", "bulk.producer", "done"}

oneLookup(i) ==
    IF singleWrapper THEN calls[i].cacheRes ELSE calls[i].cacheRes[1]

oneTask(i) ==
    IF singleWrapper \/ needsProducer(oneLookup(i))
    THEN calls[i].task
    ELSE calls[i].refreshTask

oneOutput(i) ==
    IF singleWrapper
    THEN the(calls[i].result)
    ELSE [ok |-> ~isError(outputAt(i, 1)), value |-> outputAt(i, 1)]

oneSucceeded(t) ==
    /\ producerCalls[t].state = "resolved"
    /\ singleWrapper \/ ~isError(the(producerCalls[t].result)[1])

oneFailed(t) ==
    IF singleWrapper
    THEN producerCalls[t].state = "rejected"
    ELSE /\ producerCalls[t].state = "resolved"
         /\ isError(the(producerCalls[t].result)[1])

\* The normalized primary resource of the result of producer call t,
\* under the id of the request.
oneFresh(t) ==
    LET result == IF singleWrapper
                  THEN the(producerCalls[t].result)
                  ELSE the(producerCalls[t].result)[1]
    IN  normalizeProducerResultResource(
            [id |-> "a",
             content |-> result.content,
             initialAge |-> result.initialAge,
             vary |-> result.vary,
             directives |-> result.directives,
             validators |-> result.validators,
             date |-> result.date],
            {}, storeCalls[the(storeCallsOf(t))].at)

\* The cache writes made with the results of the producer calls of
\* invocation i.
oneWrites(i) ==
    {w \in 1 .. Len(storeCalls) : storeCalls[w].by \in producerCallsBy(i)}

\* C21: for one cacheable request the bulk wrapper, given the one-element
\* list, and the single wrapper do the same in every cache state.  With a
\* usable entry both return it and call nothing; with a
\* usableWhileRevalidate entry both return it, with one producer call in
\* the background whose result is written once; otherwise one producer
\* call serves the invocation, both return its fresh result, written
\* once, and when the producer fails both return the usableIfError entry
\* if there is one, and else the producer's error (the single wrapper by
\* rejecting, the bulk wrapper in the list), with nothing written.  An
\* invocation makes the call itself unless it joined a pending one for
\* the same request.
Thm_C21_BulkAsSingle ==
    \A i \in made :
        oneLooked(i) =>
            LET lookup == oneLookup(i)
                t == oneTask(i)
            IN  IF lookup.usable # {}
                THEN /\ calls[i].pc = "done"
                     /\ oneOutput(i) = [ok |-> TRUE, value |-> the(lookup.usable)]
                     /\ producerCallsBy(i) = {}
                     /\ oneWrites(i) = {}
                ELSE /\ t \in 1 .. Len(producerCalls)
                     /\ producerCallsBy(i) \subseteq {t}
                     /\ finalRequestsAt(producerCalls[t].by) = finalRequestsAt(i)
                     /\ oneWrites(i) \subseteq storeCallsOf(t)
                     /\ oneSucceeded(t) => Cardinality(storeCallsOf(t)) = 1
                     /\ ~oneSucceeded(t) => storeCallsOf(t) = {}
                     /\ IF lookup.usableWhileRevalidate # {}
                        THEN /\ calls[i].pc = "done"
                             /\ oneOutput(i) =
                                    [ok |-> TRUE,
                                     value |-> the(lookup.usableWhileRevalidate)]
                        ELSE /\ producerCalls[t].state = "pending" =>
                                    calls[i].pc # "done"
                             /\ oneSucceeded(t) =>
                                    /\ calls[i].pc = "done"
                                    /\ oneOutput(i) =
                                           [ok |-> TRUE, value |-> oneFresh(t)]
                             /\ oneFailed(t) /\ lookup.usableIfError # {} =>
                                    /\ calls[i].pc = "done"
                                    /\ oneOutput(i) =
                                           [ok |-> TRUE,
                                            value |-> the(lookup.usableIfError)]
                             /\ oneFailed(t) /\ lookup.usableIfError = {} =>
                                    /\ calls[i].pc = "done"
                                    /\ ~oneOutput(i).ok
                                    /\ isError(oneOutput(i).value)

\* The cache state of invocation i at its lookup.  Only the entry the
\* store held from the start carries a validator: when it is Unusable it
\* shows among `validatable`; when the lookup shows nothing and no
\* producer call was made before the one it led to, nothing was stored.
oneCacheState(i) ==
    LET lookup == oneLookup(i)
    IN  IF lookup.usable # {} THEN Usable
        ELSE IF lookup.usableWhileRevalidate # {} THEN UsableWhileRevalidate
        ELSE IF lookup.usableIfError # {} THEN UsableIfError
        ELSE IF lookup.validatable # {} THEN Unusable
        ELSE IF producerCallsBy(i) = {1} THEN "nothing stored"
        ELSE "unknown"

\* An invocation of the given wrapper has returned in the given cache
\* state, the producer having failed or not.
oneCase(bulk, state, failed) ==
    \E i \in made :
        /\ bulkWrapper = bulk
        /\ calls[i].pc = "done"
        /\ oneCacheState(i) = state
        /\ state = Usable \/
               /\ oneTask(i) \in 1 .. Len(producerCalls)
               /\ IF failed THEN oneFailed(oneTask(i))
                            ELSE oneSucceeded(oneTask(i))

\* The bulk wrapper returned the usableIfError entry for its one request
\* after the producer's Error.
Wit_C21_BulkAsSingle == oneCase(TRUE, UsableIfError, TRUE)

Wit_C21_SingleIfError == oneCase(FALSE, UsableIfError, TRUE)

Wit_C21_BulkUsable == oneCase(TRUE, Usable, FALSE)

Wit_C21_SingleUsable == oneCase(FALSE, Usable, FALSE)

Wit_C21_BulkStale == oneCase(TRUE, UsableWhileRevalidate, FALSE)

Wit_C21_SingleStale == oneCase(FALSE, UsableWhileRevalidate, FALSE)

Wit_C21_BulkUnusable == oneCase(TRUE, Unusable, FALSE)

Wit_C21_SingleUnusable == oneCase(FALSE, Unusable, FALSE)

Wit_C21_BulkNothing == oneCase(TRUE, "nothing stored", FALSE)

Wit_C21_SingleNothing == oneCase(FALSE, "nothing stored", FALSE)

\* ---------------------------------------------------------- normalizers

\* The raw maxStale objects of the directives given to the normalizer,
\* each with what the first application made of it.
normalizedMaxStales ==
    IF clsResult = <<>>
    THEN {}
    ELSE IF "storeFor" \in DOMAIN clsDirs
    THEN {<<raw, out>> \in clsDirs.maxStale \X clsResult[1].maxStale : TRUE}
    ELSE {<<[f \in {"withoutRevalidation", "whileRevalidate", "ifError"} |->
               clsDirs[f]],
            [f \in {"withoutRevalidation", "whileRevalidate", "ifError"} |->
               clsResult[1][f]]>>}

\* The freshUntilAge values the first application returned.
normalizedFreshUntilAges ==
    IF clsResult = <<>> \/ "freshUntilAge" \notin DOMAIN clsDirs
    THEN {}
    ELSE IF "storeFor" \in DOMAIN clsDirs
    THEN {clsResult[1].freshUntilAge}
    ELSE clsResult[1].freshUntilAge

\* C31: a normalized maxStale has 0 <= withoutRevalidation <=
\* whileRevalidate <= ifError, withoutRevalidation being the raw value or
\* 0 when that is negative, and each later threshold its raw value or,
\* when that is smaller than the normalized threshold before it, that
\* threshold; a normalized freshUntilAge is never negative.
Thm_C31_MonotoneThresholds ==
    /\ \A p \in normalizedMaxStales :
           LET raw == p[1]
               out == p[2]
           IN  /\ 0 <= out.withoutRevalidation
               /\ out.withoutRevalidation <= out.whileRevalidate
               /\ out.whileRevalidate <= out.ifError
               /\ out.withoutRevalidation =
                      IF raw.withoutRevalidation < 0
                      THEN 0
                      ELSE raw.withoutRevalidation
               /\ out.whileRevalidate =
                      IF raw.whileRevalidate < out.withoutRevalidation
                      THEN out.withoutRevalidation
                      ELSE raw.whileRevalidate
               /\ out.ifError =
                      IF raw.ifError < out.whileRevalidate
                      THEN out.whileRevalidate
                      ELSE raw.ifError
    /\ \A f \in normalizedFreshUntilAges : f >= 0

\* A producer's maxStale with decreasing thresholds, the last negative,
\* was normalized: the later thresholds took the first one's value.
Wit_C31_MonotoneThresholds ==
    \E p \in normalizedMaxStales :
        /\ "freshUntilAge" \notin DOMAIN clsDirs
        /\ p[1].withoutRevalidation > p[1].whileRevalidate
        /\ p[1].whileRevalidate > p[1].ifError
        /\ p[1].ifError < 0
        /\ p[2].ifError = p[1].withoutRevalidation

\* A consumer's maxStale with a negative freshUntilAge and a negative
\* withoutRevalidation was normalized.
Wit_C31_ConsumerClamped ==
    /\ clsResult # <<>>
    /\ "storeFor" \notin DOMAIN clsDirs
    /\ "freshUntilAge" \in DOMAIN clsDirs
    /\ clsDirs.freshUntilAge = {-1}
    /\ clsDirs.withoutRevalidation < 0
    /\ clsResult[1].freshUntilAge = {0}
    /\ clsResult[1].withoutRevalidation = 0

\* C32: a normalizer applied to what it returned returns the same.
Thm_C32_Idempotent ==
    Len(clsResult) = MaxApplications => clsResult[2] = clsResult[1]

\* Producer directives that normalization changed, the freshUntilAge and
\* the maxStale both, were normalized twice with the same result.
Wit_C32_Idempotent ==
    /\ Len(clsResult) = MaxApplications
    /\ "storeFor" \in DOMAIN clsDirs
    /\ clsDirs.freshUntilAge < 0
    /\ clsDirs.maxStale # {}
    /\ clsDirs.maxStale # clsResult[1].maxStale
    /\ clsResult[2] = clsResult[1]

\* The same for a consumer's maxStale.
Wit_C32_ConsumerIdempotent ==
    /\ Len(clsResult) = MaxApplications
    /\ "storeFor" \notin DOMAIN clsDirs
    /\ "freshUntilAge" \in DOMAIN clsDirs
    /\ clsDirs # clsResult[1]
    /\ clsResult[2] = clsResult[1]

\* ------------------------------------------------ diagnostics messages

\* Invocation i has gone past its cache read (or had none to make): all
\* the messages it publishes are published.
pastLookup(i) ==
    calls[i].pc \notin {"idle", "bulk.idle", "cache.get", "cache.getMany"}

\* The cache read of invocation i rejected and the wrapper rethrew.
readThrown(i) == readRejected(i) /\ options.onCacheReadFailure = "throw"

\* The message the k-th request of invocation i is to cause, by the path
\* the invocation took for it.
expectedMessage(i, k) ==
    LET req == finalRequestsAt(i)[k]
        lookup == IF singleWrapper THEN calls[i].cacheRes ELSE lookupAt(i, k)
    IN  <<IF ~isCacheable(req.id, req.params) THEN "uncacheable"
          ELSE IF lookup.usable # {} THEN "hit"
          ELSE IF lookup.usableWhileRevalidate # {}
               THEN "stale_while_revalidate"
          ELSE IF req.directives.maxAge = {0} THEN "bypass"
          ELSE "miss",
          req.id>>

\* Invocation i published one message per request, each as expected:
\* every message is published as often as requests expect it.
oneMessagePerRequest(i) ==
    LET published == calls[i].published
        n == Len(finalRequestsAt(i))
    IN  /\ Len(published) = n
        /\ \A k \in 1 .. n :
               Cardinality({m \in 1 .. n :
                   published[m] = expectedMessage(i, k)})
               = Cardinality({j \in 1 .. n :
                   expectedMessage(i, j) = expectedMessage(i, k)})

\* C33, as the specification states it: every request handled by a
\* wrapper (the request of a single invocation, each element of a bulk
\* one) causes exactly one diagnostics message, whose cacheKey is the
\* request's id and whose outcome is uncacheable, hit,
\* stale_while_revalidate, bypass (maxAge 0) or miss by the path taken.
Orig_C33_OneMessagePerRequest ==
    \A i \in made : pastLookup(i) => oneMessagePerRequest(i)

\* What holds: an invocation whose cache read rejected under "throw"
\* publishes nothing at all, and every other one publishes one message
\* per request, as expected.
OneMessageUnlessReadThrown ==
    \A i \in made :
        pastLookup(i) =>
            IF readThrown(i)
            THEN calls[i].published = <<>>
            ELSE oneMessagePerRequest(i)

\* A bulk invocation published a hit, a stale_while_revalidate or bypass
\* and an uncacheable message, or a single one published a bypass.
OneMessageCases ==
    \E i \in made :
        /\ pastLookup(i)
        /\ ~readThrown(i)
        /\ \E m \in 1 .. Len(calls[i].published) :
               calls[i].published[m][1] \in {"bypass", "hit"}
        /\ bulkWrapper =>
               \E m \in 1 .. Len(calls[i].published) :
                   calls[i].published[m][1] = "uncacheable"

\* A bulk invocation with an uncacheable request called the producer for
\* it, its read was rethrown, and it published nothing.
ReadThrownUnpublished ==
    \E i \in made :
        /\ bulkWrapper
        /\ readThrown(i)
        /\ pastLookup(i)
        /\ producerCallsBy(i) # {}
        /\ calls[i].published = <<>>

\* ------------------------------------------------ consumer maxAge = 0

\* The lookup result of invocation i for its k-th request.
lookupOf(i, k) == IF singleWrapper THEN calls[i].cacheRes ELSE lookupAt(i, k)

\* The cacheable requests of invocation i whose consumer gave maxAge = 0,
\* by position.
bypassRequestsAt(i) ==
    {k \in 1 .. Len(finalRequestsAt(i)) :
        /\ isCacheable(finalRequestsAt(i)[k].id, finalRequestsAt(i)[k].params)
        /\ finalRequestsAt(i)[k].directives.maxAge = {0}}

\* Invocation i turned to the producer for its k-th request and reported
\* a bypass for it.
bypassed(i, k) ==
    LET req == finalRequestsAt(i)[k]
        t == calls[i].task
    IN  /\ needsProducer(lookupOf(i, k))
        /\ \E m \in 1 .. Len(calls[i].published) :
               calls[i].published[m] = <<"bypass", req.id>>
        /\ t # 0
        /\ IF singleWrapper
           THEN producerCalls[t].req = req
           ELSE \E j \in 1 .. Len(producerCalls[t].req) :
                    producerCalls[t].req[j] = req

\* C34, as the specification states it: a cacheable request with consumer
\* maxAge = 0 is never answered from the cache; the wrapper calls the
\* producer for it and reports the outcome bypass, whatever is stored.
Orig_C34_MaxAgeZeroBypasses ==
    \A i \in made :
        (pastLookup(i) /\ ~readThrown(i)) =>
            \A k \in bypassRequestsAt(i) : bypassed(i, k)

\* What holds: such a request is never answered with an entry of an age
\* above 0 and never with a stale-while-revalidate entry; it is a hit on
\* an entry whose age at the lookup is 0 or negative, and a bypass with a
\* producer call otherwise.
MaxAgeZeroBypassesOlderEntries ==
    \A i \in made :
        (pastLookup(i) /\ ~readThrown(i)) =>
            \A k \in bypassRequestsAt(i) :
                LET lookup == lookupOf(i, k)
                IN  IF lookup.usable # {}
                    THEN age(the(lookup.usable), calls[i].getNow) <= 0
                    ELSE bypassed(i, k)

\* A request with maxAge = 0 found an entry older than 0 seconds and went
\* to the producer.
MaxAgeZeroBypassed ==
    \E i \in made :
        /\ pastLookup(i)
        /\ \E k \in bypassRequestsAt(i) :
               /\ bypassed(i, k)
               /\ \E it \in rows :
                      /\ it.id = finalRequestsAt(i)[k].id
                      /\ age(it, calls[i].getNow) > 0
                      /\ birthDate(it) < calls[i].getNow

\* A request with maxAge = 0 was answered with the entry stored in the
\* same instant.
MaxAgeZeroHit ==
    \E i \in made :
        /\ pastLookup(i)
        /\ \E k \in bypassRequestsAt(i) :
               /\ lookupOf(i, k).usable # {}
               /\ the(calls[i].result).ok

\* ------------------------------------------- the bulk producer's calls

\* The request lists handed to the bulk wrapper: an uncacheable request,
\* one for the id the store may hold an entry for, and one for another id.
RefreshRequests == {<<RequestU, RequestA, RequestS>>}

\* The bulk wrapper over a store that holds an entry already.
InitRefresh == InitOne /\ bulkWrapper /\ rows # {}

NextRefresh ==
    \/ \E i \in 1 .. NumCalls, reqs \in RefreshRequests :
           WrappedBulkProducerCalled(i, reqs)
    \/ \E i \in 1 .. NumCalls : CacheGetManySettles(i, FALSE)
    \/ \E t \in DOMAIN producerCalls : BulkProducerRejects(t)
    \/ \E t \in DOMAIN producerCalls :
           \E results \in BulkProducerResults(t, Len(producerCalls[t].req)) :
               BulkProducerResolves(t, results)
    \/ \E w \in DOMAIN storeCalls : DataStoreStoreSettles(w, FALSE)
    \/ Tick

SpecRefresh == InitRefresh /\ [][NextRefresh]_vars

\* The cacheable requests of the bulk invocation i whose lookup results
\* are at the positions `ps` of cacheResults, in order.
cacheableAmong(i, ps) == elementsAt(cacheableAt(i), ps)

\* Its requests with a usable entry, with a usableWhileRevalidate entry,
\* and with neither.
usableAt(i) ==
    cacheableAmong(i, requestsWithUsableResults(calls[i].cacheRes))

staleAt(i) ==
    cacheableAmong(i,
        requestsWithUsableWhileRevalidateResults(calls[i].cacheRes))

needingAt(i) ==
    cacheableAmong(i, requestsNeedingProducerNow(calls[i].cacheRes))

\* The producer was called with exactly the requests `reqs` for the bulk
\* invocation i: by the invocation itself, or by the pending identical
\* call t it was merged into.
sentAs(i, t, reqs) ==
    /\ t \in 1 .. Len(producerCalls)
    /\ producerCalls[t].req = reqs

\* What holds of the producer calls of a bulk invocation that has its
\* lookup results.
producerCallsOfBulk(i) ==
    LET own == producerCallsBy(i)
        call == calls[i]
    IN  /\ Cardinality(own) <= 3
        /\ own \subseteq {call.uncacheableTask, call.task, call.refreshTask}
        /\ IF uncacheableAt(i) # <<>>
           THEN /\ call.uncacheableTask \in own
                /\ sentAs(i, call.uncacheableTask, uncacheableAt(i))
                /\ ~producerCalls[call.uncacheableTask].stores
           ELSE call.uncacheableTask = 0
        /\ IF needingAt(i) # <<>>
           THEN sentAs(i, call.task, needingAt(i))
           ELSE call.task = 0
        /\ IF call.refreshTask # 0
           THEN /\ sentAs(i, call.refreshTask, staleAt(i))
                /\ staleAt(i) # <<>>
                /\ call.pc \in {"bulk.uncacheable", "done"}
           ELSE staleAt(i) # <<>> =>
                    \/ call.pc = "bulk.producer"
                    \/ rejectedWith(call.result, ProducerError(call.task))
        /\ \A t \in (own \cup {call.task, call.refreshTask}) \ {0} :
               \A j \in 1 .. Len(producerCalls[t].req) :
                   \A k \in 1 .. Len(usableAt(i)) :
                       producerCalls[t].req[j] # usableAt(i)[k]

\* The background refresh of the bulk invocation i has been asked for.
refreshSent(i) ==
    /\ calls[i].refreshTask # 0
    /\ sentAs(i, calls[i].refreshTask, staleAt(i))

\* The bulk invocation i found a usableWhileRevalidate entry.
refreshDue(i) ==
    /\ i \in made
    /\ pastLookup(i)
    /\ ~readThrown(i)
    /\ staleAt(i) # <<>>

\* C35, as the specification states it: a bulk invocation calls the
\* producer at most three times: with exactly its uncacheable requests,
\* with exactly its cacheable requests that have neither a usable nor a
\* usableWhileRevalidate entry, and in the background with exactly its
\* stale-while-revalidate requests; a request with a usable entry is
\* never sent, and every stale-while-revalidate request is sent in the
\* end: at the latest when the invocation has settled, after which it
\* starts nothing.
Orig_C35_ThreeProducerCalls ==
    \A i \in made :
        (pastLookup(i) /\ ~readThrown(i)) =>
            /\ producerCallsOfBulk(i)
            /\ (refreshDue(i) /\ calls[i].pc = "done") => refreshSent(i)

\* An invocation that has settled starts no background call any more.
RefreshOnlyBeforeSettling ==
    [][\A i \in Invocations :
          calls[i].pc = "done" =>
              /\ calls'[i].pc = "done"
              /\ calls'[i].refreshTask = calls[i].refreshTask]_vars

\* What holds: the calls are those three, and the background call is
\* made as soon as the call for the requests that need the producer now
\* has resolved; it is never made when that call rejects.
ThreeProducerCallsUnlessRejected ==
    \A i \in made :
        (pastLookup(i) /\ ~readThrown(i)) => producerCallsOfBulk(i)

\* An invocation made all three calls.
ThreeProducerCallsMade ==
    \E i \in made :
        /\ Cardinality(producerCallsBy(i)) = 3
        /\ calls[i].pc = "done"

\* An invocation with a stale-while-revalidate request and one that
\* needed the producer rejected with the producer's error and never asked
\* for the refresh.
RefreshNeverSent ==
    \E i \in made :
        /\ refreshDue(i)
        /\ needingAt(i) # <<>>
        /\ calls[i].pc = "done"
        /\ calls[i].refreshTask = 0
        /\ rejectedWith(calls[i].result, ProducerError(calls[i].task))

\* ------------------------------------- no maxStale, consumer maxAge only

\* The producer supplied no maxStale, and the consumer maxAge and nothing
\* else.
clsMaxAgeOnly ==
    /\ clsProducerDirs.maxStale = {}
    /\ clsDirs.maxStale = {}
    /\ clsDirs.maxAge # {}

\* C36, as the specification states it: with no producer maxStale and a
\* consumer that gives only maxAge, classify returns Usable if the entry
\* is fresh as isFresh has it (0 <= age <= freshUntilAge, so not when the
\* age is negative) and its age is <= maxAge, and Unusable otherwise.
Orig_C36_FreshWithinMaxAge ==
    clsMaxAgeOnly =>
        clsResult = IF /\ isFresh(clsEntry, clsAt)
                       /\ clsAge <= the(clsDirs.maxAge)
                    THEN Usable
                    ELSE Unusable

\* What holds: so it is for an entry whose age is not negative; an entry
\* of negative age, which isFresh calls non-fresh, is Usable.
FreshWithinMaxAgeFromBirth ==
    clsMaxAgeOnly =>
        clsResult = IF /\ clsAge <= clsProducerDirs.freshUntilAge
                       /\ clsAge <= the(clsDirs.maxAge)
                    THEN Usable
                    ELSE Unusable

\* A fresh entry is cut off by maxAge.
FreshBeyondMaxAge ==
    /\ clsMaxAgeOnly
    /\ isFresh(clsEntry, clsAt)
    /\ clsAge > the(clsDirs.maxAge)
    /\ clsResult = Unusable

\* An entry of negative age is classified Usable.
UsableBeforeBirth ==
    /\ clsMaxAgeOnly
    /\ clsAge < 0
    /\ ~isFresh(clsEntry, clsAt)
    /\ clsResult = Usable

\* ------------------------------------------------- maxStoreForSeconds

\* The "store" events of the store operations on an open Cache: the
\* entry, what the event gave as maxStoreForSeconds, and the instant
\* Cache.store captured.
storeEvents ==
    UNION {{[entry |-> calls[i].log[k].what.entry,
             maxStoreForSeconds |-> calls[i].log[k].what.maxStoreForSeconds,
             at |-> calls[i].at] : k \in 1 .. Len(calls[i].arg)} :
           i \in storesWhileOpen}

\* R: what is left of the producer's storeFor, if it gave one.
requestedFor(e) ==
    IF e.entry.directives.storeFor # {}
    THEN the(e.entry.directives.storeFor) - e.entry.initialAge
    ELSE Infinity

\* U: how long the entry can still be of use to some request.
usefulFor(e) ==
    IF e.entry.directives.maxStale # {} /\ e.entry.validators = {}
    THEN e.entry.directives.freshUntilAge
         + the(e.entry.directives.maxStale).ifError - age(e.entry, e.at)
    ELSE Infinity

\* C37: the maxStoreForSeconds Cache.store computes for an entry is
\* max(0, min(R, U)), R being storeFor - initialAge when the producer
\* gave storeFor and +infinity otherwise, U being freshUntilAge +
\* maxStale.ifError - age(entry, now) when the entry has a producer
\* maxStale and no validators and +infinity otherwise; so it is never
\* negative, and it is +infinity for an entry without storeFor that has
\* validators or no producer maxStale.
Thm_C37_MaxStoreForSeconds ==
    \A e \in storeEvents :
        /\ e.maxStoreForSeconds = Max(0, Min(requestedFor(e), usefulFor(e)))
        /\ e.maxStoreForSeconds >= 0
        /\ (/\ e.entry.directives.storeFor = {}
            /\ \/ e.entry.validators # {}
               \/ e.entry.directives.maxStale = {})
               => e.maxStoreForSeconds = Infinity

\* Entries stored in one run: one whose usefulness ran out a second
\* before (U = -1) and one that has a second of use left, both without
\* storeFor.
Wit_C37_MaxStoreForSeconds ==
    /\ \E e \in storeEvents :
           /\ e.entry.directives.storeFor = {}
           /\ usefulFor(e) = -1
           /\ e.maxStoreForSeconds = 0
    /\ \E e \in storeEvents :
           /\ e.entry.directives.storeFor = {}
           /\ usefulFor(e) = 1
           /\ e.maxStoreForSeconds = 1

\* An entry older than its storeFor (R = -1) is given 0 seconds, and an
\* entry with validators and no storeFor is given +infinity.
Wit_C37_RequestedAndInfinite ==
    /\ \E e \in storeEvents :
           /\ requestedFor(e) = -1
           /\ e.maxStoreForSeconds = 0
    /\ \E e \in storeEvents :
           /\ e.entry.directives.storeFor = {}
           /\ e.entry.validators # {}
           /\ e.entry.directives.maxStale # {}
           /\ e.maxStoreForSeconds = Infinity

\* ------------------------------------------ the inferred store-for limit

\* The classified entry, and the same entry with a validator.
clsWithValidators == [clsEntry EXCEPT !.validators = {<<"etag", "1">>}]

\* C38: the store-for limit inferred from usefulness never discards an
\* entry that could still serve a request: at every instant at which
\* potentiallyUsefulFor(e, t) < 0, the entry e has no validators and
\* classify(e, c, t) = Unusable whatever the consumer directives c.
Thm_C38_UselessIsUnusable ==
    /\ potentiallyUsefulFor(clsEntry, clsAt) < 0 =>
           /\ ~isValidatable(clsEntry)
           /\ clsResult = Unusable
    /\ potentiallyUsefulFor(clsWithValidators, clsAt) >= 0

\* An entry past freshUntilAge + maxStale.ifError is Unusable for a
\* consumer that accepts any staleness the model has.
Wit_C38_UselessIsUnusable ==
    /\ potentiallyUsefulFor(clsEntry, clsAt) < 0
    /\ \E m \in clsDirs.maxStale :
           /\ m.ifError = MaxSeconds
           /\ m.whileRevalidate = MaxSeconds
           /\ m.withoutRevalidation = MaxSeconds
           /\ m.freshUntilAge = {MaxSeconds}
    /\ clsDirs.maxAge = {}
    /\ clsResult = Unusable

\* In its last second of usefulness the entry still serves on error.
Wit_C38_LastUsefulSecond ==
    /\ potentiallyUsefulFor(clsEntry, clsAt) = 0
    /\ clsEntry.directives.freshUntilAge > 0
    /\ clsResult = UsableIfError

\* ---------------------------------------------- the backing store's rows

\* The entries the store operation i handed to the backing store.
writtenBy(i) ==
    {entriesWithTimes(calls[i].arg, calls[i].at)[k].entry :
        k \in 1 .. Len(calls[i].arg)}

\* The write of the store operation i succeeds in this step.
writeSucceeds(i) ==
    /\ calls[i].op = "store"
    /\ calls[i].pc = "writing"
    /\ calls'[i].pc = "done"
    /\ the(calls'[i].result).ok

\* C39: the backing store holds at most one entry per (id, vary) after
\* any sequence of store batches; a batch overwrites the entries held
\* under its keys, whatever their age (last writer wins), with the input
\* born last among the inputs of the batch that share the key, and
\* leaves the entries under other keys alone.
Thm_C39_OneEntryPerKey ==
    /\ [](\A a \in rows, b \in rows : storeKey(a) = storeKey(b) => a = b)
    /\ [][\A i \in 1 .. NumOps :
            writeSucceeds(i) =>
                /\ \A e \in writtenBy(i) :
                       \E kept \in rows' \cap writtenBy(i) :
                           /\ storeKey(kept) = storeKey(e)
                           /\ birthDate(kept) >= birthDate(e)
                /\ \A e \in rows' \ writtenBy(i) :
                       /\ e \in rows
                       /\ \A w \in writtenBy(i) : storeKey(w) # storeKey(e)
                /\ \A e \in rows :
                       (\A w \in writtenBy(i) : storeKey(w) # storeKey(e))
                           => e \in rows']_vars

\* Two batches were written, and the store holds under a key they share
\* the entry of one although the other's was born later.
Wit_C39_OneEntryPerKey ==
    /\ cacheDirect
    /\ \E i \in storesWhileOpen, j \in storesWhileOpen :
           /\ i # j
           /\ calls[i].pc = "done" /\ the(calls[i].result).ok
           /\ calls[j].pc = "done" /\ the(calls[j].result).ok
           /\ \E e \in writtenBy(i) \cap rows, o \in writtenBy(j) :
                  /\ storeKey(e) = storeKey(o)
                  /\ birthDate(o) > birthDate(e)
                  /\ o \notin rows

\* A batch whose two inputs share a key was written, and the store holds
\* the first input, born after the second.
Wit_C39_LatestOfBatch ==
    /\ cacheDirect
    /\ \E i \in storesWhileOpen :
           /\ calls[i].pc = "done" /\ the(calls[i].result).ok
           /\ Len(calls[i].arg) = 2
           /\ LET items == entriesWithTimes(calls[i].arg, calls[i].at)
              IN  /\ storeKey(items[1].entry) = storeKey(items[2].entry)
                  /\ birthDate(items[1].entry) > birthDate(items[2].entry)
                  /\ items[1].entry \in rows
                  /\ items[2].entry \notin rows

\* ----------------------------------------------------------- naiveGetMany

\* The default of naiveGetMany's maxConcurrency.
DefaultMaxConcurrency == 10

\* The request lists handed to naiveGetMany: none, three requests, and
\* one request more than the default limit lets through at once.
NaiveRequests ==
    {<<>>,
     [k \in 1 .. 3 |->
         [id |-> IF k = 2 THEN "b" ELSE "a", params |-> {}]],
     [k \in 1 .. DefaultMaxConcurrency + 1 |->
         [id |-> IF k % 2 = 0 THEN "b" ELSE "a", params |-> {}]]}

\* naiveGetMany before it is called.  `gets` has one store.get per
\* request: "queued" (handed to limit, not started), "pending" (store.get
\* called and in flight), "resolved" with its entries, or "rejected".
\* `result` is the promise of Promise.all.
IdleNaive ==
    [fn |-> "idle", requests |-> <<>>, limit |-> 0, gets |-> <<>>,
     result |-> [state |-> "pending", value |-> <<>>, error |-> 0]]

\* A variant of the limiter that starts every queued function at once.
startQueued_Unlimited(gets, limit) ==
    [k \in 1 .. Len(gets) |->
        IF gets[k].state = "queued"
        THEN [gets[k] EXCEPT !.state = "pending"]
        ELSE gets[k]]

\* pLimit(limit): queued functions start in the order they were handed
\* over, as long as fewer than `limit` are running.
startQueued(gets, limit) ==
    LET running == {k \in 1 .. Len(gets) : gets[k].state = "pending"}
        queued == {k \in 1 .. Len(gets) : gets[k].state = "queued"}
        starting ==
            {k \in queued :
                Cardinality({j \in queued : j < k}) + Cardinality(running)
                    < limit}
    IN  [k \in 1 .. Len(gets) |->
            IF k \in starting
            THEN [gets[k] EXCEPT !.state = "pending"]
            ELSE gets[k]]

\* Promise.all over the promises of `gets`, whose own promise was
\* `result` before call k settled: it rejects with the first rejection,
\* and resolves with the values in the order of the promises once all
\* have resolved.
promiseAll(result, gets, k) ==
    IF result.state # "pending"
    THEN result
    ELSE IF gets[k].state = "rejected"
    THEN [state |-> "rejected", value |-> <<>>, error |-> k]
    ELSE IF \A j \in 1 .. Len(gets) : gets[j].state = "resolved"
    THEN [state |-> "resolved",
          value |-> [j \in 1 .. Len(gets) |-> gets[j].entries],
          error |-> 0]
    ELSE result

InitNaive ==
    /\ now = 0
    /\ closed = FALSE
    /\ options = DefaultOptions
    /\ rows \in StoredBefore \ {{}}
    /\ calls = <<IdleNaive>>
    /\ producerCalls = <<>>
    /\ pendingTasks = {}
    /\ storeCalls = <<>>
    /\ unhandled = {}
    /\ clsEntry = {}
    /\ clsDirs = {}
    /\ clsAt = 0
    /\ clsResult = Unusable

\* naiveGetMany(store, requests, maxConcurrency) up to its return: every
\* request is handed to the limiter, which starts the first ones.
NaiveGetManyCalled(requests, maxConcurrency) ==
    /\ calls[1].fn = "idle"
    /\ LET limit == OrElse(maxConcurrency, DefaultMaxConcurrency)
           gets == [k \in 1 .. Len(requests) |->
                       [state |-> "queued", entries |-> {}]]
       IN  calls' = <<[fn |-> "naiveGetMany",
                       requests |-> requests,
                       limit |-> limit,
                       gets |-> startQueued(gets, limit),
                       result |->
                           IF requests = <<>>
                           THEN [state |-> "resolved", value |-> <<>>,
                                 error |-> 0]
                           ELSE IdleNaive.result]>>
    /\ UNCHANGED <<now, closed, options, rows, producerCalls, pendingTasks,
                   storeCalls, unhandled, clsVars>>

\* The promise of the k-th store.get settles: the limiter starts the
\* next queued function, and Promise.all settles if this decides it.
StoreGetSettles(k, fails) ==
    /\ calls[1].fn = "naiveGetMany"
    /\ k \in 1 .. Len(calls[1].gets)
    /\ calls[1].gets[k].state = "pending"
    /\ LET call == calls[1]
           settled == [call.gets EXCEPT ![k] =
               IF fails
               THEN [state |-> "rejected", entries |-> {}]
               ELSE [state |-> "resolved",
                     entries |-> storeGet(rows, call.requests[k].id,
                                          call.requests[k].params)]]
       IN  calls' = <<[call EXCEPT
                         !.gets = startQueued(settled, call.limit),
                         !.result = promiseAll(call.result, settled, k)]>>
    /\ UNCHANGED <<now, closed, options, rows, producerCalls, pendingTasks,
                   storeCalls, unhandled, clsVars>>

\* The store.get calls that may fail are among the first ones.
LastFailing == 3

NextNaive ==
    \/ \E requests \in NaiveRequests, maxConcurrency \in {{}, {1}, {2}} :
           NaiveGetManyCalled(requests, maxConcurrency)
    \/ \E k \in 1 .. DefaultMaxConcurrency + 1, fails \in BOOLEAN :
           /\ fails => k <= LastFailing
           /\ StoreGetSettles(k, fails)

\* The backing store settles every read it was asked for.
SpecNaive ==
    /\ InitNaive
    /\ [][NextNaive]_vars
    /\ WF_vars(\E k \in 1 .. DefaultMaxConcurrency + 1 :
                   StoreGetSettles(k, FALSE))

\* ------------------------------------------- properties of naiveGetMany

naiveCalled == calls[1].fn = "naiveGetMany"

\* The store.get calls in flight, and those made so far.
inFlight == {k \in 1 .. Len(calls[1].gets) : calls[1].gets[k].state = "pending"}

issued == {k \in 1 .. Len(calls[1].gets) : calls[1].gets[k].state # "queued"}

someGetFailed ==
    \E k \in 1 .. Len(calls[1].gets) : calls[1].gets[k].state = "rejected"

\* C40: naiveGetMany makes one store.get per request, never has more
\* than maxConcurrency (10 unless given) of them in flight, makes every
\* one of them in the end when none fails, and resolves to the list
\* whose i-th element is what store.get returned for requests[i],
\* whatever the order in which the calls complete.
Thm_C40_NaiveGetMany ==
    /\ [](naiveCalled =>
            /\ Len(calls[1].gets) = Len(calls[1].requests)
            /\ Cardinality(inFlight) <= calls[1].limit
            /\ calls[1].limit \in {1, 2, DefaultMaxConcurrency}
            /\ calls[1].result.state = "resolved" =>
                   /\ Len(calls[1].result.value) = Len(calls[1].requests)
                   /\ \A i \in 1 .. Len(calls[1].requests) :
                          /\ calls[1].gets[i].state = "resolved"
                          /\ calls[1].result.value[i] = calls[1].gets[i].entries
                          /\ calls[1].result.value[i] =
                                 storeGet(rows, calls[1].requests[i].id,
                                          calls[1].requests[i].params))
    /\ [][naiveCalled =>
            \A k \in 1 .. Len(calls[1].gets) :
                /\ k \in issued => calls'[1].gets[k].state # "queued"
                /\ calls[1].gets[k].state \in {"resolved", "rejected"} =>
                       calls'[1].gets[k] = calls[1].gets[k]]_vars
    /\ naiveCalled ~>
           \/ someGetFailed
           \/ /\ issued = 1 .. Len(calls[1].requests)
              /\ calls[1].result.state = "resolved"

\* Eleven requests under the default limit: ten calls are in flight and
\* the eleventh waits.
Wit_C40_NaiveGetMany ==
    /\ naiveCalled
    /\ calls[1].limit = DefaultMaxConcurrency
    /\ Len(calls[1].requests) = DefaultMaxConcurrency + 1
    /\ Cardinality(inFlight) = DefaultMaxConcurrency
    /\ calls[1].gets[DefaultMaxConcurrency + 1].state = "queued"

\* The second call completed before the first, and the third was made
\* in its place.
Wit_C40_OutOfOrder ==
    /\ naiveCalled
    /\ calls[1].limit = 2
    /\ Len(calls[1].gets) = 3
    /\ calls[1].gets[1].state = "pending"
    /\ calls[1].gets[2].state = "resolved"
    /\ calls[1].gets[3].state = "pending"

\* The list of the eleven requests' results is returned, and the results
\* of the first two requests differ.
Wit_C40_Resolved ==
    /\ naiveCalled
    /\ Len(calls[1].requests) = DefaultMaxConcurrency + 1
    /\ calls[1].limit = 2
    /\ calls[1].result.state = "resolved"
    /\ calls[1].result.value[1] # calls[1].result.value[2]

====
